---- MODULE Spec2Model ----
(***************************************************************************)
(* Model of the workout-sheet annotation parser of workout-creator         *)
(* (src/extract_exercises.py) and of the list helpers of                   *)
(* src/exercise_database.py.                                               *)
(*                                                                         *)
(* A Python str is modelled as a sequence of one-character strings, so     *)
(* "90#" is <<"9", "0", "#">>.  Python's None is NoneStr where a str is    *)
(* expected and NoneInt where an int is expected.                          *)
(***************************************************************************)
EXTENDS Integers, Sequences, FiniteSets, TLC

VARIABLES
    hand,       \* what was written into each box, as a form (see Render)
    sheet,      \* the boxes of the sheet: <<[name |-> str, ocr |-> str], ...>>
    pc,         \* "loop" | "crashed" | "done": position in extract_exercise_data/main
    exercises,  \* the list `exercises` of ExerciseData built by the loop
    sides,      \* for each processed box, the parse_side results it used
    frame,      \* the local variables of extract_exercise_data that the body of the
                \* loop binds, as the latest iteration left them
    stderr,     \* the warnings printed to sys.stderr, in order
    marks,      \* marks[k] = Len(stderr) once box k was processed
    written,    \* the list json.dump writes once pc = "done": to_dict of every record
    nums,       \* list helpers: a list of integers
    joined,     \* list helpers: <<join_numbers(nums)>> once it was called, <<>> before
    parsed,     \* list helpers: <<parse_int_list(joined[1])>> once called, <<>> before
    side_in,    \* parse_side on its own: the text of one side
    side_out,   \* parse_side on its own: <<its result for side_in>>, <<>> before
    lines,      \* the printed lines of the sheet, the title line first
    exercise_names, \* <<[_extract_name(l) for l in lines[1:]]>> once computed, <<>> before
    csv_rows,   \* import: the data rows of the CSV file, as csv.DictReader gives them
    table,      \* import: the rows of the table `exercises`, in the order of their id
    row_num,    \* import: the index in csv_rows of the row the loop is at
    imported_count, \* import: the counters of import_csv_to_database
    skipped_count,
    error_count,
    skip_duplicates, \* import: the parameter skip_duplicates of the calls
    returned,   \* import: for every finished call, what it returned and the table then
    set_weights, \* export: the weights of the sets of one side
    set_reps,   \* export: the reps of the sets of one side
    printed,    \* export: <<join_sets(set_weights, set_reps)>> once called, <<>> before
    reparsed,   \* export: <<parse_side(printed[1], printed[1])>> once called, <<>> before
    call        \* add_exercise: <<the arguments and the outcome of the latest call>>

\* the state of import_csv_to_database
importer == <<csv_rows, table, row_num, imported_count, skipped_count, error_count,
              skip_duplicates, returned>>

\* the state of the database tool
dbtool == <<set_weights, set_reps, printed, reparsed, call>>

\* the state of the name resolution
namer == <<lines, exercise_names>>

vars == <<hand, sheet, pc, exercises, sides, frame, stderr, marks, written, nums, joined, parsed,
          side_in, side_out, namer, importer, dbtool>>

-----------------------------------------------------------------------------
(* Python values and character classes *)

NoneStr == <<"None">>   \* None where Optional[str] is expected: no str, as every
                        \* element of a modelled str is a single character or
                        \* the code point of one, as in "U+0253"
NoneInt == -1           \* None where Optional[int] is expected: int() of a digit
                        \* token is never negative

\* [0-9]
AsciiDigits == {"0", "1", "2", "3", "4", "5", "6", "7", "8", "9"}

\* the decimal digits of the other scripts, each row from zero to nine, as far
\* as they can be written in a string here
DigitRows ==
    <<<<"۰", "۱", "۲", "۳", "۴", "۵", "۶", "۷", "۸", "۹">>,
      <<"߀", "߁", "߂", "߃", "߄", "߅", "߆", "߇", "߈", "߉">>,
      <<"০", "১", "২", "৩", "৪", "৫", "৬", "৭", "৮", "৯">>,
      <<"૦", "૧", "૨", "૩", "૪", "૫", "૬", "૭", "૮", "૯">>,
      <<"௦", "௧", "௨", "௩", "௪", "௫", "௬", "௭", "௮", "௯">>,
      <<"೦", "೧", "೨", "೩", "೪", "೫", "೬", "೭", "೮", "೯">>,
      <<"෦", "෧", "෨", "෩", "෪", "෫", "෬", "෭", "෮", "෯">>,
      <<"໐", "໑", "໒", "໓", "໔", "໕", "໖", "໗", "໘", "໙">>,
      <<"႐", "႑", "႒", "႓", "႔", "႕", "႖", "႗", "႘", "႙">>,
      <<"០", "១", "២", "៣", "៤", "៥", "៦", "៧", "៨", "៩">>,
      <<"᧐", "᧑", "᧒", "᧓", "᧔", "᧕", "᧖", "᧗", "᧘", "᧙">>,
      <<"᪀", "᪁", "᪂", "᪃", "᪄", "᪅", "᪆", "᪇", "᪈", "᪉">>,
      <<"᪐", "᪑", "᪒", "᪓", "᪔", "᪕", "᪖", "᪗", "᪘", "᪙">>,
      <<"᮰", "᮱", "᮲", "᮳", "᮴", "᮵", "᮶", "᮷", "᮸", "᮹">>,
      <<"꣐", "꣑", "꣒", "꣓", "꣔", "꣕", "꣖", "꣗", "꣘", "꣙">>,
      <<"꧐", "꧑", "꧒", "꧓", "꧔", "꧕", "꧖", "꧗", "꧘", "꧙">>,
      <<"꧰", "꧱", "꧲", "꧳", "꧴", "꧵", "꧶", "꧷", "꧸", "꧹">>,
      <<"꯰", "꯱", "꯲", "꯳", "꯴", "꯵", "꯶", "꯷", "꯸", "꯹">>>>

\* \d matches the decimal digits of every script, and int() reads them
Digits == AsciiDigits \cup {DigitRows[b][d] : b \in 1..Len(DigitRows), d \in 1..10}

\* str.strip() without argument strips whitespace and \s matches the same
\* characters: space, \t, \n, \r, \x0b, \x0c, \x1c to
\* \x1f, \x85, \xa0 and U+1680. The spaces from U+2000 on (U+2000 to U+200A,
\* U+2028, U+2029, U+202F, U+205F, U+3000) cannot be written in a string here.
Whitespace ==
    {" ", "\t", "\n", "\r", "", "\f", "", "", "", "", "", " ", " "}

IsDigit(c) == c \in Digits

IsSpace(c) == c \in Whitespace

DigitVal(c) ==
    CASE c = "0" -> 0 [] c = "1" -> 1 [] c = "2" -> 2 [] c = "3" -> 3
      [] c = "4" -> 4 [] c = "5" -> 5 [] c = "6" -> 6 [] c = "7" -> 7
      [] c = "8" -> 8 [] c = "9" -> 9
      [] OTHER -> (CHOOSE d \in 0..9 : \E b \in 1..Len(DigitRows) : DigitRows[b][d + 1] = c)

DigitChar(d) ==
    CASE d = 0 -> "0" [] d = 1 -> "1" [] d = 2 -> "2" [] d = 3 -> "3"
      [] d = 4 -> "4" [] d = 5 -> "5" [] d = 6 -> "6" [] d = 7 -> "7"
      [] d = 8 -> "8" [] d = 9 -> "9"

\* int(token) for a token of decimal digits
RECURSIVE IntOf(_)
IntOf(token) ==
    IF token = <<>> THEN 0
    ELSE IntOf(SubSeq(token, 1, Len(token) - 1)) * 10 + DigitVal(token[Len(token)])

\* An int of Python has no width. An int n with |n| <= 2147483647 is the
\* integer n here; a larger one is written by its decimal digits, as str()
\* prints it: <<"-", "2", "1", "4", "7", "4", "8", "3", "6", "4", "8">>.
\* ToString tells the two apart: an integer prints in at most 11 characters, ten
\* digits or more in a sequence print in more than 50.
IsBigInt(n) == Len(ToString(n)) > 11

\* the largest integer here, as str() prints it
MaxIntDigits == <<"2", "1", "4", "7", "4", "8", "3", "6", "4", "7">>

\* sys.int_info.default_max_str_digits: int() of a text and str() of an int
\* raise ValueError beyond that many digits
MaxStrDigits == 4300

\* a <= b for two numbers in decimal digits without leading zeros
DigitsLeq(a, b) ==
    \/ Len(a) < Len(b)
    \/ /\ Len(a) = Len(b)
       /\ \A k \in 1..Len(a) :
              (\A j \in 1..(k - 1) : a[j] = b[j]) => DigitVal(a[k]) <= DigitVal(b[k])

\* n < 0
IsNegative(n) == IF IsBigInt(n) THEN n[1] = "-" ELSE n < 0

\* a == b for two ints
IntEq(a, b) == IF IsBigInt(a) # IsBigInt(b) THEN FALSE ELSE a = b

\* the digits of abs(n) for an int written by its digits
BigDigits(n) == IF n[1] = "-" THEN Tail(n) ELSE n

\* str(n) for an integer n >= 0
RECURSIVE StrOfNat(_)
StrOfNat(n) ==
    IF n < 10 THEN <<DigitChar(n)>>
    ELSE StrOfNat(n \div 10) \o <<DigitChar(n % 10)>>

\* str(n) raises ValueError: n has more than MaxStrDigits digits
StrRaises(n) == IsBigInt(n) /\ Len(BigDigits(n)) > MaxStrDigits

\* what stands for the str when str(n) or a join of them raises ValueError
StrError == <<"ValueError">>

\* str(n) when it does not raise
StrOf(n) ==
    IF IsBigInt(n) THEN n
    ELSE IF n < 0 THEN <<"-">> \o StrOfNat(0 - n)
    ELSE StrOfNat(n)

\* the character at 1-based index k, or "" outside the string
At(s, k) == IF k \in 1..Len(s) THEN s[k] ELSE ""

\* s.replace(old, new) for single characters
ReplaceChar(s, old, new) == [k \in 1..Len(s) |-> IF s[k] = old THEN new ELSE s[k]]

\* s.strip(chars): drop the leading and trailing characters that are in chars
StripChars(s, chars) ==
    LET keep == {k \in 1..Len(s) : s[k] \notin chars}
    IN  IF keep = {} THEN <<>>
        ELSE LET lo == CHOOSE k \in keep : \A j \in keep : k <= j
                 hi == CHOOSE k \in keep : \A j \in keep : k >= j
             IN  SubSeq(s, lo, hi)

Strip(s) == StripChars(s, Whitespace)

\* sub occurs in s at index k
OccursAt(s, sub, k) ==
    /\ k >= 1
    /\ k + Len(sub) - 1 <= Len(s)
    /\ \A j \in 1..Len(sub) : s[k + j - 1] = sub[j]

\* `sub in s`
Contains(s, sub) == \E k \in 1..(Len(s) + 1) : OccursAt(s, sub, k)

\* s.find(sub): the first index at which sub occurs (the caller checks Contains)
Find(s, sub) ==
    CHOOSE k \in 1..(Len(s) + 1) :
        OccursAt(s, sub, k) /\ \A j \in 1..(k - 1) : ~OccursAt(s, sub, j)

\* s.split(sep, 1): one part when sep does not occur, else the text before the
\* first occurrence and the text after it
SplitOnce(s, sep) ==
    IF ~Contains(s, sep) THEN <<s>>
    ELSE LET k == Find(s, sep)
         IN  <<SubSeq(s, 1, k - 1), SubSeq(s, k + Len(sep), Len(s))>>

\* sep.join(parts)
RECURSIVE Join(_, _)
Join(sep, parts) ==
    IF parts = <<>> THEN <<>>
    ELSE IF Len(parts) = 1 THEN parts[1]
    ELSE parts[1] \o sep \o Join(sep, Tail(parts))

\* the characters of s whose index is not inside one of the spans [start, end)
RECURSIVE CutSpans(_, _, _)
CutSpans(s, spans, k) ==
    IF k > Len(s) THEN <<>>
    ELSE IF \E j \in 1..Len(spans) : spans[j].start <= k /\ k < spans[j].end
         THEN CutSpans(s, spans, k + 1)
         ELSE <<s[k]>> \o CutSpans(s, spans, k + 1)

-----------------------------------------------------------------------------
(* Regular expressions: PAIR_RE and NUM_RE *)

PairDigits == 3     \* the {1,3} of both groups of PAIR_RE
NumDigits == 3      \* the {1,3} of NUM_RE
TooLong == 4        \* `len(token) >= 4` in _parse_number

Min(a, b) == IF a <= b THEN a ELSE b

Max(a, b) == IF a >= b THEN a ELSE b

\* how many consecutive digits s has from index k on
DigitsFrom(s, k) ==
    CHOOSE n \in 0..Len(s) :
        /\ \A j \in k..(k + n - 1) : IsDigit(At(s, j))
        /\ ~IsDigit(At(s, k + n))

\* how many consecutive whitespace characters s has from index k on
SpacesFrom(s, k) ==
    CHOOSE n \in 0..Len(s) :
        /\ \A j \in k..(k + n - 1) : IsSpace(At(s, j))
        /\ ~IsSpace(At(s, k + n))

\* [x×] under re.IGNORECASE
IsSep(c) == c \in {"x", "X", "×"}

NoMatch == [start |-> 0, end |-> 0, w |-> <<>>, r |-> <<>>]

\* PAIR_RE matched at index k of s: (\d{1,3})#\s*[x×]\s*(\d{1,3}).
\* start/end delimit the match (end exclusive), w and r are the two groups.
\* The first group is greedy and backtracks to the longest length n that is
\* followed by "#"; \s* takes all the whitespace; the last group is greedy.
PairAt(s, k) ==
    LET wlens == {n \in 1..PairDigits : n <= DigitsFrom(s, k) /\ At(s, k + n) = "#"}
    IN  IF wlens = {} THEN NoMatch
        ELSE LET n    == CHOOSE x \in wlens : \A y \in wlens : y <= x
                 sepi == k + n + 1 + SpacesFrom(s, k + n + 1)
                 ri   == sepi + 1 + SpacesFrom(s, sepi + 1)
                 rlen == Min(PairDigits, DigitsFrom(s, ri))
             IN  IF IsSep(At(s, sepi)) /\ rlen >= 1
                 THEN [start |-> k, end |-> ri + rlen,
                       w |-> SubSeq(s, k, k + n - 1),
                       r |-> SubSeq(s, ri, ri + rlen - 1)]
                 ELSE NoMatch

\* PAIR_RE.finditer(s): the leftmost non-overlapping matches from index k on
RECURSIVE FindPairs(_, _)
FindPairs(s, k) ==
    IF k > Len(s) THEN <<>>
    ELSE LET m == PairAt(s, k)
         IN  IF m.end > 0 THEN <<m>> \o FindPairs(s, m.end)
             ELSE FindPairs(s, k + 1)

\* variant of NumAt: \d+, the whole run of digits is one token
NumAtWholeRun(s, k) ==
    IF ~IsDigit(At(s, k)) THEN NoMatch
    ELSE [start |-> k, end |-> k + DigitsFrom(s, k), w |-> <<>>,
          r |-> SubSeq(s, k, k + DigitsFrom(s, k) - 1)]

\* NUM_RE matched at index k of s: \d{1,3}, greedy
NumAt(s, k) ==
    IF ~IsDigit(At(s, k)) THEN NoMatch
    ELSE LET n == Min(NumDigits, DigitsFrom(s, k))
         IN  [start |-> k, end |-> k + n, w |-> <<>>, r |-> SubSeq(s, k, k + n - 1)]

\* NUM_RE.finditer(s) from index k on
RECURSIVE FindNums(_, _)
FindNums(s, k) ==
    IF k > Len(s) THEN <<>>
    ELSE LET m == NumAt(s, k)
         IN  IF m.end > 0 THEN <<m>> \o FindNums(s, m.end)
             ELSE FindNums(s, k + 1)

-----------------------------------------------------------------------------
(* _parse_number and parse_side *)

\* _parse_number(token, line): the int, or None and a printed warning when the
\* token has four or more digits
parse_number(token, line) ==
    IF Len(token) >= TooLong
    THEN [value |-> NoneInt,
          warnings |-> <<[reason |-> "digits_too_long", token |-> token, line |-> line]>>]
    ELSE [value |-> IntOf(token), warnings |-> <<>>]

\* the loop over PAIR_RE.finditer(work): what it appends and prints
RECURSIVE PairLoop(_, _)
PairLoop(pairs, line) ==
    IF pairs = <<>> THEN [weights |-> <<>>, reps |-> <<>>, warnings |-> <<>>]
    ELSE LET w    == parse_number(Head(pairs).w, line)
             r    == parse_number(Head(pairs).r, line)
             ok   == w.value # NoneInt /\ r.value # NoneInt
             rest == PairLoop(Tail(pairs), line)
         IN  [weights  |-> (IF ok THEN <<w.value>> ELSE <<>>) \o rest.weights,
              reps     |-> (IF ok THEN <<r.value>> ELSE <<>>) \o rest.reps,
              warnings |-> w.warnings \o r.warnings \o rest.warnings]

\* variant of LastWeight: the weight of the pairs is not carried to bare counts
LastWeightZero(weights) == 0

\* last_weight = weights[-1] if weights else 0
LastWeight(weights) == IF weights # <<>> THEN weights[Len(weights)] ELSE 0

\* variant of BareEntry: the weight is appended only when it is not 0
BareEntryNonZero(r, last_weight) ==
    [weights |-> IF last_weight # 0 THEN <<last_weight>> ELSE <<>>, reps |-> <<r>>]

\* reps.append(r); weights.append(last_weight)
BareEntry(r, last_weight) == [weights |-> <<last_weight>>, reps |-> <<r>>]

\* variant of IsSettingNote: a number separated from the "#" by a space is
\* skipped as well
IsSettingNoteSpaced(work, start) ==
    start > 1 /\ (work[start - 1] = "#"
                  \/ (work[start - 1] = " " /\ At(work, start - 2) = "#"))

\* `start > 0 and work[start - 1] == "#"` (start is 0-based there, 1-based here)
IsSettingNote(work, start) == start > 1 /\ work[start - 1] = "#"

\* the loop over NUM_RE.finditer(work): what it appends and prints
RECURSIVE NumLoop(_, _, _, _)
NumLoop(matches, work, last_weight, line) ==
    IF matches = <<>> THEN [weights |-> <<>>, reps |-> <<>>, warnings |-> <<>>]
    ELSE LET m    == Head(matches)
             rest == NumLoop(Tail(matches), work, last_weight, line)
         IN  IF IsSettingNote(work, m.start) THEN rest
             ELSE LET r   == parse_number(m.r, line)
                      new == IF r.value # NoneInt THEN BareEntry(r.value, last_weight)
                             ELSE [weights |-> <<>>, reps |-> <<>>]
                  IN  [weights  |-> new.weights \o rest.weights,
                       reps     |-> new.reps \o rest.reps,
                       warnings |-> r.warnings \o rest.warnings]

\* the strings p.strip() of the parts p that have a non-empty p.strip()
RECURSIVE StrippedParts(_)
StrippedParts(parts) ==
    IF parts = <<>> THEN <<>>
    ELSE (IF Strip(Head(parts)) # <<>> THEN <<Strip(Head(parts))>> ELSE <<>>)
         \o StrippedParts(Tail(parts))

\* `value or None` for a str
OrNone(value) == IF value = <<>> THEN NoneStr ELSE value

\* leftover = work.strip().strip(","), extra_parts and
\* extra_text = " ".join(p.strip() for p in extra_parts if p.strip()) or None
ExtraText(work) ==
    LET leftover == StripChars(Strip(work), {","})
    IN  OrNone(Join(<<" ">>,
                    StrippedParts(IF leftover # <<>> THEN <<leftover>> ELSE <<>>)))

\* the returned mapping; first and second are what the two loops appended and
\* printed, work is the text after NUM_RE.sub
SideResult(first, second, work) ==
    [weights    |-> first.weights \o second.weights,
     reps       |-> first.reps \o second.reps,
     extra_text |-> ExtraText(work),
     warnings   |-> first.warnings \o second.warnings]

\* the second half of parse_side: work is the text after PAIR_RE.sub, first
\* what the pair loop appended; then the loop over NUM_RE and NUM_RE.sub
NumberPhase(work, first, line) ==
    SideResult(first,
               NumLoop(FindNums(work, 1), work, LastWeight(first.weights), line),
               CutSpans(work, FindNums(work, 1), 1))

\* the first half of parse_side: the loop over PAIR_RE and PAIR_RE.sub
PairPhase(work, line) ==
    NumberPhase(CutSpans(work, FindPairs(work, 1), 1),
                PairLoop(FindPairs(work, 1), line),
                line)

\* parse_side(data, original_line); `warnings` is what the call prints to stderr
parse_side(data, original_line) == PairPhase(ReplaceChar(data, "×", "x"), original_line)

\* join_numbers(nums)
RECURSIVE StrsOf(_)
StrsOf(ns) == IF ns = <<>> THEN <<>> ELSE <<StrOf(Head(ns))>> \o StrsOf(Tail(ns))

\* variant of join_numbers: zeros are left out
RECURSIVE StrsOfNonZero(_)
StrsOfNonZero(ns) ==
    IF ns = <<>> THEN <<>>
    ELSE (IF Head(ns) # 0 THEN <<StrOf(Head(ns))>> ELSE <<>>) \o StrsOfNonZero(Tail(ns))

join_numbers_nonzero(ns) == Join(<<",">>, StrsOfNonZero(ns))

join_numbers(ns) ==
    IF \E k \in 1..Len(ns) : StrRaises(ns[k]) THEN StrError
    ELSE Join(<<",">>, StrsOf(ns))

-----------------------------------------------------------------------------
(* ExerciseData and the body of the loop of extract_exercise_data *)

LMark == <<"L", " ", "-">>      \* "L -"
RMark == <<"R", " ", "-">>      \* "R -"

\* box_text = box_text.replace("\n", " ").strip()
BoxText(ocr) == Strip(ReplaceChar(ocr, "\n", " "))

\* `"L -" in box_text and "R -" in box_text`
IsBilateral(box_text) == Contains(box_text, LMark) /\ Contains(box_text, RMark)

\* `_, rest = box_text.split("L -", 1)` followed by `rest.split("R -", 1)`: the
\* list that is unpacked into left_part, right_part
SideParts(box_text) == SplitOnce(SplitOnce(box_text, LMark)[2], RMark)

\* unpacking a list that has not exactly two parts raises ValueError
UnpackRaises(box_text) == Len(SideParts(box_text)) # 2

\* variant of MismatchWarnings: only a shorter left side is reported
MismatchWarningsLess(sets_left, sets_right, box_text) ==
    IF sets_left < sets_right
    THEN <<[reason |-> "side_count_mismatch", token |-> <<>>, line |-> box_text]>>
    ELSE <<>>

\* `if sets_left != sets_right: print(WARNING ...)`
MismatchWarnings(sets_left, sets_right, box_text) ==
    IF sets_left # sets_right
    THEN <<[reason |-> "side_count_mismatch", token |-> <<>>, line |-> box_text]>>
    ELSE <<>>

\* variant of SetsOf: the left side alone decides
SetsOfLeft(sets_left, sets_right) == sets_left

\* sets = max(sets_left, sets_right)
SetsOf(sets_left, sets_right) == Max(sets_left, sets_right)

\* variant of FilterNone: only the first part that is neither None nor empty
\* is kept, as `left or right` does
FilterNoneFirst(parts) ==
    IF \E k \in 1..Len(parts) : parts[k] # NoneStr /\ parts[k] # <<>>
    THEN <<parts[CHOOSE k \in 1..Len(parts) :
                    /\ parts[k] # NoneStr /\ parts[k] # <<>>
                    /\ \A j \in 1..(k - 1) : parts[j] = NoneStr \/ parts[j] = <<>>]>>
    ELSE <<>>

\* filter(None, parts): the parts that are neither None nor empty
RECURSIVE FilterNone(_)
FilterNone(parts) ==
    IF parts = <<>> THEN <<>>
    ELSE (IF Head(parts) # NoneStr /\ Head(parts) # <<>> THEN <<Head(parts)>> ELSE <<>>)
         \o FilterNone(Tail(parts))

\* the local variables that the body of the loop binds: each is <<>> until its
\* first assignment and <<value>> from then on, and an iteration finds in them
\* what the iteration before left
NoLocals ==
    [left_info |-> <<>>, right_info |-> <<>>, sets_left |-> <<>>, sets_right |-> <<>>,
     sets |-> <<>>, side_info |-> <<>>]

\* the assignments of the bilateral branch: left_info, right_info, sets_left,
\* sets_right and sets
BilateralLocals(f, left_info, right_info) ==
    [f EXCEPT !.left_info  = <<left_info>>,
              !.right_info = <<right_info>>,
              !.sets_left  = <<Len(left_info.reps)>>,
              !.sets_right = <<Len(right_info.reps)>>,
              !.sets       = <<SetsOf(Len(left_info.reps), Len(right_info.reps))>>]

\* the ExerciseData of the bilateral branch, built from the local variables f,
\* the two parse_side results and the warnings printed, in the order printed
BilateralRecord(name, box_text, f) ==
    [exercise |->
        [exercise_name |-> name,
         laterality    |-> "bilateral",
         reps_left     |-> join_numbers(f.left_info[1].reps),
         reps_right    |-> join_numbers(f.right_info[1].reps),
         sets          |-> f.sets[1],
         weight_left   |-> join_numbers(f.left_info[1].weights),
         weight_right  |-> join_numbers(f.right_info[1].weights),
         extra_text    |-> OrNone(Join(<<" ">>,
                              FilterNone(<<f.left_info[1].extra_text,
                                           f.right_info[1].extra_text>>)))],
     infos    |-> <<f.left_info[1], f.right_info[1]>>,
     warnings |-> f.left_info[1].warnings \o f.right_info[1].warnings
                  \o MismatchWarnings(f.sets_left[1], f.sets_right[1], box_text)]

\* the assignment of the unilateral branch: side_info
UnilateralLocals(f, side_info) == [f EXCEPT !.side_info = <<side_info>>]

\* variant of SideInfo: as the bilateral branch reads it, from left_info once
\* a bilateral box has bound it
SideInfoLeft(f) == IF f.left_info # <<>> THEN f.left_info[1] ELSE f.side_info[1]

\* side_info as the unilateral branch reads it
SideInfo(f) == f.side_info[1]

\* the ExerciseData of the unilateral branch, built from the local variables f
UnilateralRecord(name, f) ==
    [exercise |->
        [exercise_name |-> name,
         laterality    |-> "unilateral",
         reps_left     |-> join_numbers(SideInfo(f).reps),
         reps_right    |-> NoneStr,
         sets          |-> Len(SideInfo(f).reps),
         weight_left   |-> join_numbers(SideInfo(f).weights),
         weight_right  |-> NoneStr,
         extra_text    |-> SideInfo(f).extra_text],
     infos    |-> <<SideInfo(f)>>,
     warnings |-> SideInfo(f).warnings]

\* ExerciseData.to_dict; the key extra_text is there only for a non-empty text
to_dict(ex) ==
    LET data == [exercise_name |-> ex.exercise_name,
                 laterality    |-> ex.laterality,
                 reps_left     |-> OrNone(ex.reps_left),
                 reps_right    |-> ex.reps_right,
                 sets          |-> ex.sets,
                 weight_left   |-> OrNone(ex.weight_left),
                 weight_right  |-> ex.weight_right]
    IN  IF ex.extra_text # NoneStr /\ ex.extra_text # <<>>
        THEN data @@ [extra_text |-> ex.extra_text]
        ELSE data

RECURSIVE Split(_, _)
Split(s, sep) ==
    IF ~Contains(s, sep) THEN <<s>>
    ELSE <<SplitOnce(s, sep)[1]>> \o Split(SplitOnce(s, sep)[2], sep)

\* the digits of an int literal: digits with single underscores between them
IsIntBody(b) ==
    /\ b # <<>>
    /\ \A k \in 1..Len(b) : IsDigit(b[k]) \/ b[k] = "_"
    /\ b[1] # "_" /\ b[Len(b)] # "_"
    /\ \A k \in 1..(Len(b) - 1) : ~(b[k] = "_" /\ b[k + 1] = "_")

NotUnderscore(c) == c # "_"

\* the digits of the body b of an int literal, each as an ASCII digit
BodyDigits(b) ==
    [k \in 1..Len(SelectSeq(b, NotUnderscore)) |->
        DigitChar(DigitVal(SelectSeq(b, NotUnderscore)[k]))]

\* digits without their leading zeros, <<"0">> when all are zero
NoLeadingZeros(d) ==
    IF \A k \in 1..Len(d) : d[k] = "0" THEN <<"0">>
    ELSE SubSeq(d, CHOOSE k \in 1..Len(d) :
                       d[k] # "0" /\ \A j \in 1..(k - 1) : d[j] = "0",
                Len(d))

\* the int with these digits (no leading zeros) and this sign
IntOfDigits(negative, d) ==
    IF DigitsLeq(d, MaxIntDigits)
    THEN (IF negative THEN 0 - IntOf(d) ELSE IntOf(d))
    ELSE (IF negative THEN <<"-">> \o d ELSE d)

HasSign(t) == t # <<>> /\ t[1] \in {"+", "-"}

\* the text t without its sign
Unsigned(t) == IF HasSign(t) THEN Tail(t) ELSE t

\* int(text) for the stripped text t: ok is FALSE when int raises ValueError,
\* for a text that is no int literal and for one of more than MaxStrDigits
\* digits
IntOfStripped(t) ==
    IF IsIntBody(Unsigned(t)) /\ Len(SelectSeq(Unsigned(t), NotUnderscore)) <= MaxStrDigits
    THEN [ok |-> TRUE,
          value |-> IntOfDigits(t[1] = "-", NoLeadingZeros(BodyDigits(Unsigned(t))))]
    ELSE [ok |-> FALSE, value |-> 0]

\* the whitespace that int() skips around the number: that of str.strip()
\* without \x1c, \x1d, \x1e and \x1f
IntWhitespace == Whitespace \ {"", "", "", ""}

\* int(text): int(row['sets']) and int(v)
PyInt(text) == IntOfStripped(StripChars(text, IntWhitespace))

\* int(v) raises in parse_int_list: no list is returned
ValueError == [raised |-> TRUE, list |-> <<>>]

\* int(v) accepts v
IsNumber(v) == PyInt(v).ok

\* parse_int_list(value): [] for None and for "", else int() of every part of
\* value.split(","); `list` is what is returned when nothing is raised
parse_int_list(value) ==
    IF value = NoneStr \/ value = <<>> THEN [raised |-> FALSE, list |-> <<>>]
    ELSE LET parts == Split(value, <<",">>)
         IN  IF \E k \in 1..Len(parts) : ~IsNumber(parts[k]) THEN ValueError
             ELSE [raised |-> FALSE,
                   list   |-> [k \in 1..Len(parts) |-> PyInt(parts[k]).value]]

-----------------------------------------------------------------------------
(* The handwriting put into the boxes.  A box is described by a form, and    *)
(* Render gives the text the OCR step returns for it.                        *)

MaxBoxes == 3       \* boxes on a sheet of several sample boxes
MaxTokens == 4      \* fragments in a free-form box
MaxCounts == 2      \* bare repetition counts after the optional pair
MaxLen == 2         \* length of the integer lists given to join_numbers
MaxItems == 3       \* pairs and bare counts in a box of mixed entries

\* all sequences over S of length at most n
RECURSIVE SeqsUpTo(_, _)
SeqsUpTo(S, n) ==
    IF n = 0 THEN {<<>>}
    ELSE LET shorter == SeqsUpTo(S, n - 1)
         IN  shorter \cup {Append(q, x) : q \in {r \in shorter : Len(r) = n - 1}, x \in S}

RECURSIVE Concat(_)
Concat(parts) == IF parts = <<>> THEN <<>> ELSE Head(parts) \o Concat(Tail(parts))

Names == {<<"C", "u", "r", "l">>, <<"R", "o", "w">>}

\* the boxes of the scenarios of the specification, and a few more
SamplePairAndCount == <<"9", "0", "#", " ", "x", " ", "1", "0", ",", " ", "8">>

SampleBilateral == <<"L", " ", "-", " ", "0", "#", " ", "×", " ", "2", "5", ",", " ", "2", "0", " ", "-", " ", "R", " ", "-", " ", "0", "#", " ", "×", " ", "2", "5", ",", " ", "2", "0">>

SampleCounts == <<"1", "9", ",", " ", "1", "2">>

SampleNote == <<"#", "4", " ", "H", "o", "l", "e", " ", "×", " ", "1", "8", ",", " ", "8">>

SampleFourDigits == <<"1", "2", "3", "4">>

SampleMismatch == <<"L", " ", "-", " ", "1", "0", ",", " ", "8", " ", "R", " ", "-", " ", "1", "0">>

SampleRightFirst == <<"R", " ", "-", " ", "5", " ", "L", " ", "-", " ", "5">>

SampleEmpty == <<>>

SampleEmptySide == <<"L", " ", "-", " ", "1", "0", " ", "R", " ", "-">>

SampleSpacedMark == <<"#", "4", " ", "#", " ", "1", "2">>

SampleFourCounts == <<"1", "0", ",", " ", "8", ",", " ", "6", ",", " ", "4">>

\* the text of a box as tesseract ends it, with a newline and a form feed
SamplePageEnd == <<"9", "0", "#", " ", "x", " ", "1", "0", "\n", "\f">>

SampleTexts ==
    {SamplePairAndCount,
     SamplePageEnd,
     SampleSpacedMark,
     SampleFourCounts,
     SampleBilateral,
     SampleCounts,
     SampleNote,
     SampleFourDigits,
     SampleMismatch,
     SampleRightFirst,
     SampleEmpty,
     SampleEmptySide}

\* fragments of handwriting as the OCR step can return them
Tokens == {LMark, RMark, <<"1", "2">>, <<"5">>, <<"#">>, <<"x">>, <<",">>, <<" ">>, <<"a">>}

\* digit tokens of one to three digits, with and without leading zeros
NumTokens == {<<"0">>, <<"8">>, <<"1", "0">>, <<"0", "0", "7">>, <<"1", "2", "5">>}

\* the digit tokens of the pair texts of the round-trip checks
PairTokens == NumTokens \cup {<<"0", "0">>, <<"4", "0">>, <<"9", "9", "9">>}

\* the integers of the lists given to join_numbers
SampleInts == {0, 7, 10, 999}

\* a pair "w# x r" alone
PairForms ==
    {[kind |-> "pair", w |-> w, r |-> r, sep |-> x] :
        w \in PairTokens, r \in PairTokens, x \in {"x", "×"}}

\* the word of a note: the one of the specification, and one of letters that
\* the OCR step is set to read
Words == {<<"H", "o", "l", "e">>, <<"l", "r">>}

\* the sample boxes that sheets of several boxes are made of
SheetTexts ==
    {SamplePairAndCount, SampleBilateral, SampleCounts, SampleMismatch, SampleRightFirst}

SheetForms == {[kind |-> "text", name |-> n, text |-> t] : n \in Names, t \in SheetTexts}

SampleForms ==
    {[kind |-> "text", name |-> <<"C", "u", "r", "l">>, text |-> t] : t \in SampleTexts}

TokenForms ==
    {[kind |-> "tokens", name |-> <<"C", "u", "r", "l">>, tokens |-> ts] :
        ts \in SeqsUpTo(Tokens, MaxTokens)}

\* the sheet shorthand of the module docstring: an optional leading pair
\* "w# x r0", then comma separated bare counts
ShorthandForms ==
    {[kind |-> "shorthand", name |-> <<"R", "o", "w">>, pair |-> p, sep |-> x, comma |-> c,
      counts |-> rs] :
        p \in {<<>>} \cup (NumTokens \X NumTokens),
        x \in {"x", "×"},
        c \in {<<",">>, <<",", " ">>},
        rs \in SeqsUpTo(NumTokens, MaxCounts)}

\* an equipment-setting note "#<digit>", a word, a separator and counts
NoteForms ==
    {[kind |-> "note", name |-> <<"R", "o", "w">>, digit |-> d, word |-> w, sep |-> x,
      comma |-> c, counts |-> rs] :
        d \in {"4", "9"}, w \in Words, x \in {"x", "×", "X"},
        c \in {<<",">>, <<",", " ">>},
        rs \in SeqsUpTo(NumTokens, MaxCounts) \ {<<>>}}

\* a weight alone, "w#", followed by nothing or by a space and bare counts:
\* the marked number has no separator and no count after it
WeightForms ==
    {[kind |-> "weight", name |-> <<"R", "o", "w">>, w |-> w, comma |-> c, counts |-> rs] :
        w \in NumTokens,
        c \in {<<",">>, <<",", " ">>},
        rs \in SeqsUpTo(NumTokens, MaxCounts)}

\* the entries of a box of mixed entries: a pair "w# x r" or a bare count r
\* (then w is empty)
Items ==
    {[w |-> w, r |-> r] : w \in {<<"9", "0">>, <<"1", "0", "0">>},
                          r \in {<<"1", "0">>, <<"6">>}}
    \cup {[w |-> <<>>, r |-> r] : r \in {<<"8">>, <<"1", "2">>}}

\* pairs and bare counts in any order, separated by ", "
MixedForms ==
    {[kind |-> "mixed", name |-> <<"R", "o", "w">>, items |-> its] :
        its \in SeqsUpTo(Items, MaxItems)}

RenderItem(item) ==
    IF item.w = <<>> THEN item.r ELSE item.w \o <<"#", " ", "x", " ">> \o item.r

Render(form) ==
    CASE form.kind = "text" -> form.text
      [] form.kind = "tokens" -> Concat(form.tokens)
      [] form.kind = "shorthand" ->
            Join(form.comma,
                 (IF form.pair = <<>> THEN <<>>
                  ELSE <<form.pair[1] \o <<"#", " ", form.sep, " ">> \o form.pair[2]>>)
                 \o form.counts)
      [] form.kind = "pair" -> form.w \o <<"#", " ", form.sep, " ">> \o form.r
      [] form.kind = "note" ->
            <<"#", form.digit, " ">> \o form.word \o <<" ", form.sep, " ">>
            \o Join(form.comma, form.counts)
      [] form.kind = "mixed" ->
            Join(<<",", " ">>, [j \in 1..Len(form.items) |-> RenderItem(form.items[j])])
      [] form.kind = "weight" ->
            form.w \o <<"#">>
            \o (IF form.counts = <<>> THEN <<>>
                ELSE <<" ">> \o Join(form.comma, form.counts))

\* the sheets: up to MaxBoxes sample boxes, or one box of any form
Hands ==
    SeqsUpTo(SheetForms, MaxBoxes)
    \cup {<<f>> : f \in SampleForms \cup TokenForms \cup ShorthandForms \cup NoteForms
                         \cup WeightForms \cup MixedForms}

-----------------------------------------------------------------------------
(* extract_exercise_data and main as a state machine *)

\* the name resolution took no part: no lines, no names
NamerIdle ==
    /\ lines = <<>>
    /\ exercise_names = <<>>

\* the database tool took no part
DbToolIdle ==
    /\ set_weights = <<>>
    /\ set_reps = <<>>
    /\ printed = <<>>
    /\ reparsed = <<>>
    /\ call = <<>>

\* import_csv_to_database took no part: no file, an empty table
ImporterIdle ==
    /\ csv_rows = <<>>
    /\ table = <<>>
    /\ row_num = 1
    /\ imported_count = 0
    /\ skipped_count = 0
    /\ error_count = 0
    /\ skip_duplicates = TRUE
    /\ returned = <<>>

Init ==
    /\ hand \in Hands
    /\ sheet = [k \in 1..Len(hand) |-> [name |-> hand[k].name, ocr |-> Render(hand[k])]]
    /\ pc = "loop"
    /\ exercises = <<>>
    /\ sides = <<>>
    /\ frame = NoLocals
    /\ stderr = <<>>
    /\ marks = <<>>
    /\ written = <<>>
    /\ nums = <<>>
    /\ joined = <<>>
    /\ parsed = <<>>
    /\ side_in = <<>>
    /\ side_out = <<>>
    /\ NamerIdle
    /\ ImporterIdle
    /\ DbToolIdle

\* exercises.append(exercise), after the warnings of the iteration were printed
AppendExercise(out) ==
    /\ exercises' = Append(exercises, out.exercise)
    /\ sides' = Append(sides, out.infos)
    /\ stderr' = stderr \o out.warnings
    /\ marks' = Append(marks, Len(stderr) + Len(out.warnings))
    /\ pc' = pc

\* the ValueError of a failed unpacking is caught nowhere: the run ends
Crash ==
    /\ pc' = "crashed"
    /\ UNCHANGED <<exercises, sides, frame, stderr, marks>>

\* the bilateral branch: split at the markers, parse each side, build the
\* record from the local variables
BilateralBox(name, box_text) ==
    /\ frame' = BilateralLocals(frame, parse_side(SideParts(box_text)[1], box_text),
                                        parse_side(SideParts(box_text)[2], box_text))
    /\ AppendExercise(BilateralRecord(name, box_text, frame'))

\* the unilateral branch: the whole text is one side
UnilateralBox(name, box_text) ==
    /\ frame' = UnilateralLocals(frame, parse_side(box_text, box_text))
    /\ AppendExercise(UnilateralRecord(name, frame'))

\* the body of the loop for a box with this name and text
Iteration(name, box_text) ==
    IF IsBilateral(box_text)
    THEN IF UnpackRaises(box_text) THEN Crash ELSE BilateralBox(name, box_text)
    ELSE UnilateralBox(name, box_text)

\* one iteration of `for name in exercise_names`, from the OCR of the box to
\* exercises.append(exercise)
ProcessBox ==
    /\ pc = "loop"
    /\ Len(exercises) < Len(sheet)
    /\ Iteration(sheet[Len(exercises) + 1].name, BoxText(sheet[Len(exercises) + 1].ocr))
    /\ UNCHANGED <<hand, sheet, written, nums, joined, parsed, side_in, side_out, namer,
                   importer, dbtool>>

\* `return exercises`, then main dumps [ex.to_dict() for ex in data]
WriteOutput ==
    /\ pc = "loop"
    /\ Len(exercises) = Len(sheet)
    /\ written' = [k \in 1..Len(exercises) |-> to_dict(exercises[k])]
    /\ pc' = "done"
    /\ UNCHANGED <<hand, sheet, exercises, sides, frame, stderr, marks, nums, joined, parsed,
                   side_in, side_out, namer, importer, dbtool>>

Next == ProcessBox \/ WriteOutput

Spec == Init /\ [][Next]_vars

-----------------------------------------------------------------------------
(* The pure helpers on their own: join_numbers, parse_int_list and parse_side *)
(* applied to inputs drawn from bounded sets.                                 *)

InitRoundTrip ==
    /\ hand \in {<<f>> : f \in PairForms}
    /\ sheet = <<>>
    /\ pc = "done"
    /\ exercises = <<>>
    /\ sides = <<>>
    /\ frame = NoLocals
    /\ stderr = <<>>
    /\ marks = <<>>
    /\ written = <<>>
    /\ nums \in SeqsUpTo(SampleInts, MaxLen)
    /\ joined = <<>>
    /\ parsed = <<>>
    /\ side_in = Render(hand[1])
    /\ side_out = <<>>
    /\ NamerIdle
    /\ ImporterIdle
    /\ DbToolIdle

\* joined = join_numbers(nums)
JoinNumbers ==
    /\ joined = <<>>
    /\ joined' = <<join_numbers(nums)>>
    /\ UNCHANGED <<hand, sheet, pc, exercises, sides, frame, stderr, marks, written, nums,
                   parsed, side_in, side_out, namer, importer, dbtool>>

\* parsed = parse_int_list(joined)
ParseIntList ==
    /\ joined # <<>>
    /\ parsed = <<>>
    /\ parsed' = <<parse_int_list(joined[1])>>
    /\ UNCHANGED <<hand, sheet, pc, exercises, sides, frame, stderr, marks, written, nums,
                   joined, side_in, side_out, namer, importer, dbtool>>

\* side_out = parse_side(side_in, side_in)
ParseSide ==
    /\ side_out = <<>>
    /\ side_out' = <<parse_side(side_in, side_in)>>
    /\ UNCHANGED <<hand, sheet, pc, exercises, sides, frame, stderr, marks, written, nums,
                   joined, parsed, side_in, namer, importer, dbtool>>

NextRoundTrip == JoinNumbers \/ ParseIntList \/ ParseSide

SpecRoundTrip == InitRoundTrip /\ [][NextRoundTrip]_vars

-----------------------------------------------------------------------------
(* The printed lines of the sheet and _extract_name *)

MaxLineTokens == 4  \* fragments in a printed line
MaxLines == 2       \* exercise lines on a page

\* a match of (?:[LR]\s*-\s*|\d) starts at index k of line
NameEndAt(line, k) ==
    \/ At(line, k) \in {"L", "R"} /\ At(line, k + 1 + SpacesFrom(line, k + 1)) = "-"
    \/ IsDigit(At(line, k))

\* re.search(...).start() as a 1-based index, 0 when there is no match
SearchStart(line) ==
    IF \E k \in 1..Len(line) : NameEndAt(line, k)
    THEN CHOOSE k \in 1..Len(line) :
            NameEndAt(line, k) /\ \A j \in 1..(k - 1) : ~NameEndAt(line, j)
    ELSE 0

Delim == <<" ", "-", " ">>      \* " - "

\* variant of RFind: the end of the searched slice is ignored
RFindWhole(s, sub, stop) ==
    IF \E i \in 1..Len(s) : OccursAt(s, sub, i)
    THEN CHOOSE i \in 1..Len(s) :
            OccursAt(s, sub, i) /\ \A j \in (i + 1)..Len(s) : ~OccursAt(s, sub, j)
    ELSE 0

\* s.rfind(sub, 0, stop): the highest 1-based index at which sub occurs within
\* the first `stop` characters of s, 0 when there is none
RFind(s, sub, stop) ==
    IF \E i \in 1..stop : OccursAt(s, sub, i) /\ i + Len(sub) - 1 <= stop
    THEN CHOOSE i \in 1..stop :
            /\ OccursAt(s, sub, i) /\ i + Len(sub) - 1 <= stop
            /\ \A j \in (i + 1)..stop : ~(OccursAt(s, sub, j) /\ j + Len(sub) - 1 <= stop)
    ELSE 0

\* _extract_name(line)
extract_name(line) ==
    IF SearchStart(line) # 0
    THEN IF RFind(line, Delim, SearchStart(line) - 1) # 0
         THEN Strip(SubSeq(line, 1, RFind(line, Delim, SearchStart(line) - 1) - 1))
         ELSE Strip(SubSeq(line, 1, SearchStart(line) - 1))
    ELSE Strip(line)

\* lines = [line.strip() for line in text.splitlines() if line.strip()]
RECURSIVE StrippedLines(_)
StrippedLines(raw) ==
    IF raw = <<>> THEN <<>>
    ELSE (IF Strip(Head(raw)) # <<>> THEN <<Strip(Head(raw))>> ELSE <<>>)
         \o StrippedLines(Tail(raw))

Title == <<"P", "l", "a", "n", " ", "A">>

\* fragments of a printed line
LineTokens == {<<"R", "o", "w">>, Delim, <<"L">>, <<"R">>, <<"-">>, <<" ">>, <<"5">>}

LineTexts == {Concat(ts) : ts \in SeqsUpTo(LineTokens, MaxLineTokens)}

SampleLineMarker == <<"R", "o", "w", " ", "L", " ", "-", " ", "5">>

SampleLinePair == <<"L", "e", "g", " ", "C", "u", "r", "l", " ", "-", " ", "9", "0", "#", " ", "x", " ", "1", "0">>

SampleLines == {SampleLineMarker, SampleLinePair}

\* the text of a page: nothing, or the title and the exercise lines
Pages ==
    {<<>>}
    \cup {<<Title, l>> \o rest : l \in LineTexts, rest \in SeqsUpTo(SampleLines, MaxLines - 1)}

InitNames ==
    /\ lines \in {StrippedLines(raw) : raw \in Pages}
    /\ exercise_names = <<>>
    /\ pc = "names"
    /\ hand = <<>>
    /\ sheet = <<>>
    /\ exercises = <<>>
    /\ sides = <<>>
    /\ frame = NoLocals
    /\ stderr = <<>>
    /\ marks = <<>>
    /\ written = <<>>
    /\ nums = <<>>
    /\ joined = <<>>
    /\ parsed = <<>>
    /\ side_in = <<>>
    /\ side_out = <<>>
    /\ ImporterIdle
    /\ DbToolIdle

\* `if not lines: return []`
ReturnNoLines ==
    /\ pc = "names"
    /\ lines = <<>>
    /\ pc' = "done"
    /\ UNCHANGED <<hand, sheet, exercises, sides, frame, stderr, marks, written, nums, joined,
                   parsed, side_in, side_out, namer, importer, dbtool>>

\* exercise_names = [_extract_name(l) for l in lines[1:]]
ExtractNames ==
    /\ pc = "names"
    /\ lines # <<>>
    /\ exercise_names' = <<[k \in 1..(Len(lines) - 1) |-> extract_name(lines[k + 1])]>>
    /\ pc' = "named"
    /\ UNCHANGED <<hand, sheet, exercises, sides, frame, stderr, marks, written, nums, joined,
                   parsed, side_in, side_out, lines, importer, dbtool>>

NextNames == ReturnNoLines \/ ExtractNames

SpecNames == InitNames /\ [][NextNames]_vars

-----------------------------------------------------------------------------
(* import_csv_to_db.py: parse_date, the fields of a row, the duplicate check  *)
(* and import_csv_to_database as a state machine                              *)

MaxRows == 2        \* data rows of the CSV file
MaxImports == 2     \* calls of import_csv_to_database with the same file and database

\* the characters that str.lower() changes, as far as they can be written in a
\* string here, and, at the same index of Lowers, what it makes of them. A
\* lower-case character that cannot be written in a string here is named by
\* its code point, as in "U+0253"
Uppers ==
    <<"A", "B", "C", "D", "E", "F", "G", "H", "I", "J", "K", "L", "M", "N", "O", "P", "Q", "R",
      "S", "T", "U", "V", "W", "X", "Y", "Z", "À", "Á", "Â", "Ã", "Ä", "Å", "Æ", "Ç", "È", "É",
      "Ê", "Ë", "Ì", "Í", "Î", "Ï", "Ð", "Ñ", "Ò", "Ó", "Ô", "Õ", "Ö", "Ø", "Ù", "Ú", "Û", "Ü",
      "Ý", "Þ", "Ɓ", "Ƃ", "Ƅ", "Ɔ", "Ƈ", "Ɖ", "Ɗ", "Ƌ", "Ǝ", "Ə", "Ɛ", "Ƒ", "Ɠ", "Ɣ", "Ɩ", "Ɨ",
      "Ƙ", "Ɯ", "Ɲ", "Ɵ", "Ơ", "Ƣ", "Ƥ", "Ʀ", "Ƨ", "Ʃ", "Ƭ", "Ʈ", "Ư", "Ʊ", "Ʋ", "Ƴ", "Ƶ", "Ʒ",
      "Ƹ", "Ƽ", "Ǆ", "ǅ", "Ǉ", "ǈ", "Ǌ", "ǋ", "Ǎ", "Ǐ", "Ǒ", "Ǔ", "Ǖ", "Ǘ", "Ǚ", "Ǜ", "Ǟ", "Ǡ",
      "Ǣ", "Ǥ", "Ǧ", "Ǩ", "Ǫ", "Ǭ", "Ǯ", "Ǳ", "ǲ", "Ǵ", "Ƕ", "Ƿ", "Ǹ", "Ǻ", "Ǽ", "Ǿ", "Ά", "Έ",
      "Ή", "Ί", "Ό", "Ύ", "Ώ", "Α", "Β", "Γ", "Δ", "Ε", "Ζ", "Η", "Θ", "Ι", "Κ", "Λ", "Μ", "Ν",
      "Ξ", "Ο", "Π", "Ρ", "Σ", "Τ", "Υ", "Φ", "Χ", "Ψ", "Ω", "Ϊ", "Ϋ", "Ϗ", "Ϙ", "Ϛ", "Ϝ", "Ϟ",
      "Ϡ", "Ϣ", "Ϥ", "Ϧ", "Ϩ", "Ϫ", "Ϭ", "Ϯ", "ϴ", "Ϸ", "Ϲ", "Ϻ", "Ͻ", "Ͼ", "Ͽ", "Ҁ", "Ҋ", "Ҍ",
      "Ҏ", "Ґ", "Ғ", "Ҕ", "Җ", "Ҙ", "Қ", "Ҝ", "Ҟ", "Ҡ", "Ң", "Ҥ", "Ҧ", "Ҩ", "Ҫ", "Ҭ", "Ү", "Ұ",
      "Ҳ", "Ҵ", "Ҷ", "Ҹ", "Һ", "Ҽ", "Ҿ", "Ӏ", "Ӂ", "Ӄ", "Ӆ", "Ӈ", "Ӊ", "Ӌ", "Ӎ", "Ӑ", "Ӓ", "Ӕ",
      "Ӗ", "Ә", "Ӛ", "Ӝ", "Ӟ", "Ӡ", "Ӣ", "Ӥ", "Ӧ", "Ө", "Ӫ", "Ӭ", "Ӯ", "Ӱ", "Ӳ", "Ӵ", "Ӷ", "Ӹ",
      "Ӻ", "Ӽ", "Ӿ", "Ⴀ", "Ⴁ", "Ⴂ", "Ⴃ", "Ⴄ", "Ⴅ", "Ⴆ", "Ⴇ", "Ⴈ", "Ⴉ", "Ⴊ", "Ⴋ", "Ⴌ", "Ⴍ", "Ⴎ",
      "Ⴏ", "Ⴐ", "Ⴑ", "Ⴒ", "Ⴓ", "Ⴔ", "Ⴕ", "Ⴖ", "Ⴗ", "Ⴘ", "Ⴙ", "Ⴚ", "Ⴛ", "Ⴜ", "Ⴝ", "Ⴞ", "Ⴟ", "Ⴠ",
      "Ⴡ", "Ⴢ", "Ⴣ", "Ⴤ", "Ⴥ", "Ⴧ", "Ⴭ", "Ꭰ", "Ꭱ", "Ꭲ", "Ꭳ", "Ꭴ", "Ꭵ", "Ꭶ", "Ꭷ", "Ꭸ", "Ꭹ", "Ꭺ",
      "Ꭻ", "Ꭼ", "Ꭽ", "Ꭾ", "Ꭿ", "Ꮀ", "Ꮁ", "Ꮂ", "Ꮃ", "Ꮄ", "Ꮅ", "Ꮆ", "Ꮇ", "Ꮈ", "Ꮉ", "Ꮊ", "Ꮋ", "Ꮌ",
      "Ꮍ", "Ꮎ", "Ꮏ", "Ꮐ", "Ꮑ", "Ꮒ", "Ꮓ", "Ꮔ", "Ꮕ", "Ꮖ", "Ꮗ", "Ꮘ", "Ꮙ", "Ꮚ", "Ꮛ", "Ꮜ", "Ꮝ", "Ꮞ",
      "Ꮟ", "Ꮠ", "Ꮡ", "Ꮢ", "Ꮣ", "Ꮤ", "Ꮥ", "Ꮦ", "Ꮧ", "Ꮨ", "Ꮩ", "Ꮪ", "Ꮫ", "Ꮬ", "Ꮭ", "Ꮮ", "Ꮯ", "Ꮰ",
      "Ꮱ", "Ꮲ", "Ꮳ", "Ꮴ", "Ꮵ", "Ꮶ", "Ꮷ", "Ꮸ", "Ꮹ", "Ꮺ", "Ꮻ", "Ꮼ", "Ꮽ", "Ꮾ", "Ꮿ", "Ᏸ", "Ᏹ", "Ᏺ",
      "Ᏻ", "Ᏼ", "Ᏽ", "Ა", "Ბ", "Გ", "Დ", "Ე", "Ვ", "Ზ", "Თ", "Ი", "Კ", "Ლ", "Მ", "Ნ", "Ო", "Პ",
      "Ჟ", "Რ", "Ს", "Ტ", "Უ", "Ფ", "Ქ", "Ღ", "Ყ", "Შ", "Ჩ", "Ც", "Ძ", "Წ", "Ჭ", "Ხ", "Ჯ", "Ჰ",
      "Ჱ", "Ჲ", "Ჳ", "Ჴ", "Ჵ", "Ჶ", "Ჷ", "Ჸ", "Ჹ", "Ჺ", "Ჽ", "Ჾ", "Ჿ", "Ẁ", "Ẃ", "Ẅ", "Ẇ", "Ẉ",
      "Ẋ", "Ẍ", "Ẏ", "Ẑ", "Ẓ", "Ẕ", "ẞ", "Ạ", "Ả", "Ấ", "Ầ", "Ẩ", "Ẫ", "Ậ", "Ắ", "Ằ", "Ẳ", "Ẵ",
      "Ặ", "Ẹ", "Ẻ", "Ẽ", "Ế", "Ề", "Ể", "Ễ", "Ệ", "Ỉ", "Ị", "Ọ", "Ỏ", "Ố", "Ồ", "Ổ", "Ỗ", "Ộ",
      "Ớ", "Ờ", "Ở", "Ỡ", "Ợ", "Ụ", "Ủ", "Ứ", "Ừ", "Ử", "Ữ", "Ự", "Ỳ", "Ỵ", "Ỷ", "Ỹ", "Ỻ", "Ỽ",
      "Ỿ", "ᾈ", "ᾉ", "ᾊ", "ᾋ", "ᾌ", "ᾍ", "ᾎ", "ᾏ", "ᾘ", "ᾙ", "ᾚ", "ᾛ", "ᾜ", "ᾝ", "ᾞ", "ᾟ", "ᾨ",
      "ᾩ", "ᾪ", "ᾫ", "ᾬ", "ᾭ", "ᾮ", "ᾯ", "Ᾰ", "Ᾱ", "Ὰ", "Ά", "ᾼ", "Ὲ", "Έ", "Ὴ", "Ή", "ῌ", "Ῐ",
      "Ῑ", "Ὶ", "Ί", "Ῠ", "Ῡ", "Ὺ", "Ύ", "Ῥ", "Ὸ", "Ό", "Ὼ", "Ώ", "ῼ", "Ↄ", "Ⓐ", "Ⓑ", "Ⓒ", "Ⓓ",
      "Ⓔ", "Ⓕ", "Ⓖ", "Ⓗ", "Ⓘ", "Ⓙ", "Ⓚ", "Ⓛ", "Ⓜ", "Ⓝ", "Ⓞ", "Ⓟ", "Ⓠ", "Ⓡ", "Ⓢ", "Ⓣ", "Ⓤ", "Ⓥ",
      "Ⓦ", "Ⓧ", "Ⓨ", "Ⓩ", "Ⲁ", "Ⲃ", "Ⲅ", "Ⲇ", "Ⲉ", "Ⲋ", "Ⲍ", "Ⲏ", "Ⲑ", "Ⲓ", "Ⲕ", "Ⲗ", "Ⲙ", "Ⲛ",
      "Ⲝ", "Ⲟ", "Ⲡ", "Ⲣ", "Ⲥ", "Ⲧ", "Ⲩ", "Ⲫ", "Ⲭ", "Ⲯ", "Ⲱ", "Ⲳ", "Ⲵ", "Ⲷ", "Ⲹ", "Ⲻ", "Ⲽ", "Ⲿ",
      "Ⳁ", "Ⳃ", "Ⳅ", "Ⳇ", "Ⳉ", "Ⳋ", "Ⳍ", "Ⳏ", "Ⳑ", "Ⳓ", "Ⳕ", "Ⳗ", "Ⳙ", "Ⳛ", "Ⳝ", "Ⳟ", "Ⳡ", "Ⳣ",
      "Ⳬ", "Ⳮ", "Ⳳ", "Ꚁ", "Ꚃ", "Ꚅ", "Ꚇ", "Ꚉ", "Ꚋ", "Ꚍ", "Ꚏ", "Ꚑ", "Ꚓ", "Ꚕ", "Ꚗ", "Ꚙ", "Ꚛ", "Ꞁ",
      "Ꞃ", "Ꞅ", "Ꞇ", "Ꞌ", "Ɥ", "Ꞑ", "Ꞓ", "Ꞗ", "Ꞙ", "Ꞛ", "Ꞝ", "Ꞟ", "Ꞡ", "Ꞣ", "Ꞥ", "Ꞧ", "Ꞩ", "Ɦ",
      "Ɜ", "Ɡ", "Ɬ", "Ɪ", "Ʞ", "Ʇ", "Ʝ", "Ꭓ", "Ꞵ", "Ꞷ", "Ꞹ", "Ꞻ", "Ꞽ", "Ꞿ", "Ꟁ", "Ꟃ", "Ꞔ", "Ʂ",
      "Ᶎ", "Ꟈ", "Ꟊ", "Ꟑ", "Ꟗ", "Ꟙ", "Ꟶ">>

Lowers ==
    <<"a", "b", "c", "d", "e", "f", "g", "h", "i", "j", "k", "l", "m", "n", "o", "p", "q", "r",
      "s", "t", "u", "v", "w", "x", "y", "z", "à", "á", "â", "ã", "ä", "å", "æ", "ç", "è", "é",
      "ê", "ë", "ì", "í", "î", "ï", "ð", "ñ", "ò", "ó", "ô", "õ", "ö", "ø", "ù", "ú", "û", "ü",
      "ý", "þ", "U+0253", "ƃ", "ƅ", "U+0254", "ƈ", "U+0256", "U+0257", "ƌ", "ǝ", "U+0259",
      "U+025B", "ƒ", "U+0260", "U+0263", "U+0269", "U+0268", "ƙ", "U+026F", "U+0272", "U+0275",
      "ơ", "ƣ", "ƥ", "ʀ", "ƨ", "ʃ", "ƭ", "ʈ", "ư", "ʊ", "ʋ", "ƴ", "ƶ", "ʒ", "ƹ", "ƽ", "ǆ", "ǆ",
      "ǉ", "ǉ", "ǌ", "ǌ", "ǎ", "ǐ", "ǒ", "ǔ", "ǖ", "ǘ", "ǚ", "ǜ", "ǟ", "ǡ", "ǣ", "ǥ", "ǧ", "ǩ",
      "ǫ", "ǭ", "ǯ", "ǳ", "ǳ", "ǵ", "ƕ", "ƿ", "ǹ", "ǻ", "ǽ", "ǿ", "ά", "έ", "ή", "ί", "ό", "ύ",
      "ώ", "α", "β", "γ", "δ", "ε", "ζ", "η", "θ", "ι", "κ", "λ", "μ", "ν", "ξ", "ο", "π", "ρ",
      "σ", "τ", "υ", "φ", "χ", "ψ", "ω", "ϊ", "ϋ", "ϗ", "ϙ", "ϛ", "ϝ", "ϟ", "ϡ", "ϣ", "ϥ", "ϧ",
      "ϩ", "ϫ", "ϭ", "ϯ", "θ", "ϸ", "ϲ", "ϻ", "U+037B", "U+037C", "U+037D", "ҁ", "ҋ", "ҍ", "ҏ",
      "ґ", "ғ", "ҕ", "җ", "ҙ", "қ", "ҝ", "ҟ", "ҡ", "ң", "ҥ", "ҧ", "ҩ", "ҫ", "ҭ", "ү", "ұ", "ҳ",
      "ҵ", "ҷ", "ҹ", "һ", "ҽ", "ҿ", "ӏ", "ӂ", "ӄ", "ӆ", "ӈ", "ӊ", "ӌ", "ӎ", "ӑ", "ӓ", "ӕ", "ӗ",
      "ә", "ӛ", "ӝ", "ӟ", "ӡ", "ӣ", "ӥ", "ӧ", "ө", "ӫ", "ӭ", "ӯ", "ӱ", "ӳ", "ӵ", "ӷ", "ӹ", "ӻ",
      "ӽ", "ӿ", "U+2D00", "U+2D01", "U+2D02", "U+2D03", "U+2D04", "U+2D05", "U+2D06", "U+2D07",
      "U+2D08", "U+2D09", "U+2D0A", "U+2D0B", "U+2D0C", "U+2D0D", "U+2D0E", "U+2D0F", "U+2D10",
      "U+2D11", "U+2D12", "U+2D13", "U+2D14", "U+2D15", "U+2D16", "U+2D17", "U+2D18", "U+2D19",
      "U+2D1A", "U+2D1B", "U+2D1C", "U+2D1D", "U+2D1E", "U+2D1F", "U+2D20", "U+2D21", "U+2D22",
      "U+2D23", "U+2D24", "U+2D25", "U+2D27", "U+2D2D", "U+AB70", "U+AB71", "U+AB72", "U+AB73",
      "U+AB74", "U+AB75", "U+AB76", "U+AB77", "U+AB78", "U+AB79", "U+AB7A", "U+AB7B", "U+AB7C",
      "U+AB7D", "U+AB7E", "U+AB7F", "ꮀ", "ꮁ", "ꮂ", "ꮃ", "ꮄ", "ꮅ", "ꮆ", "ꮇ", "ꮈ", "ꮉ", "ꮊ", "ꮋ",
      "ꮌ", "ꮍ", "ꮎ", "ꮏ", "ꮐ", "ꮑ", "ꮒ", "ꮓ", "ꮔ", "ꮕ", "ꮖ", "ꮗ", "ꮘ", "ꮙ", "ꮚ", "ꮛ", "ꮜ", "ꮝ",
      "ꮞ", "ꮟ", "ꮠ", "ꮡ", "ꮢ", "ꮣ", "ꮤ", "ꮥ", "ꮦ", "ꮧ", "ꮨ", "ꮩ", "ꮪ", "ꮫ", "ꮬ", "ꮭ", "ꮮ", "ꮯ",
      "ꮰ", "ꮱ", "ꮲ", "ꮳ", "ꮴ", "ꮵ", "ꮶ", "ꮷ", "ꮸ", "ꮹ", "ꮺ", "ꮻ", "ꮼ", "ꮽ", "ꮾ", "ꮿ", "ᏸ", "ᏹ",
      "ᏺ", "ᏻ", "ᏼ", "ᏽ", "ა", "ბ", "გ", "დ", "ე", "ვ", "ზ", "თ", "ი", "კ", "ლ", "მ", "ნ", "ო",
      "პ", "ჟ", "რ", "ს", "ტ", "უ", "ფ", "ქ", "ღ", "ყ", "შ", "ჩ", "ც", "ძ", "წ", "ჭ", "ხ", "ჯ",
      "ჰ", "ჱ", "ჲ", "ჳ", "ჴ", "ჵ", "ჶ", "ჷ", "ჸ", "ჹ", "ჺ", "ჽ", "ჾ", "ჿ", "ẁ", "ẃ", "ẅ", "ẇ",
      "ẉ", "ẋ", "ẍ", "ẏ", "ẑ", "ẓ", "ẕ", "ß", "ạ", "ả", "ấ", "ầ", "ẩ", "ẫ", "ậ", "ắ", "ằ", "ẳ",
      "ẵ", "ặ", "ẹ", "ẻ", "ẽ", "ế", "ề", "ể", "ễ", "ệ", "ỉ", "ị", "ọ", "ỏ", "ố", "ồ", "ổ", "ỗ",
      "ộ", "ớ", "ờ", "ở", "ỡ", "ợ", "ụ", "ủ", "ứ", "ừ", "ử", "ữ", "ự", "ỳ", "ỵ", "ỷ", "ỹ", "ỻ",
      "ỽ", "ỿ", "ᾀ", "ᾁ", "ᾂ", "ᾃ", "ᾄ", "ᾅ", "ᾆ", "ᾇ", "ᾐ", "ᾑ", "ᾒ", "ᾓ", "ᾔ", "ᾕ", "ᾖ", "ᾗ",
      "ᾠ", "ᾡ", "ᾢ", "ᾣ", "ᾤ", "ᾥ", "ᾦ", "ᾧ", "ᾰ", "ᾱ", "U+1F70", "U+1F71", "ᾳ", "U+1F72",
      "U+1F73", "U+1F74", "U+1F75", "ῃ", "ῐ", "ῑ", "U+1F76", "U+1F77", "ῠ", "ῡ", "U+1F7A",
      "U+1F7B", "ῥ", "U+1F78", "U+1F79", "U+1F7C", "U+1F7D", "ῳ", "ↄ", "ⓐ", "ⓑ", "ⓒ", "ⓓ", "ⓔ",
      "ⓕ", "ⓖ", "ⓗ", "ⓘ", "ⓙ", "ⓚ", "ⓛ", "ⓜ", "ⓝ", "ⓞ", "ⓟ", "ⓠ", "ⓡ", "ⓢ", "ⓣ", "ⓤ", "ⓥ", "ⓦ",
      "ⓧ", "ⓨ", "ⓩ", "ⲁ", "ⲃ", "ⲅ", "ⲇ", "ⲉ", "ⲋ", "ⲍ", "ⲏ", "ⲑ", "ⲓ", "ⲕ", "ⲗ", "ⲙ", "ⲛ", "ⲝ",
      "ⲟ", "ⲡ", "ⲣ", "ⲥ", "ⲧ", "ⲩ", "ⲫ", "ⲭ", "ⲯ", "ⲱ", "ⲳ", "ⲵ", "ⲷ", "ⲹ", "ⲻ", "ⲽ", "ⲿ", "ⳁ",
      "ⳃ", "ⳅ", "ⳇ", "ⳉ", "ⳋ", "ⳍ", "ⳏ", "ⳑ", "ⳓ", "ⳕ", "ⳗ", "ⳙ", "ⳛ", "ⳝ", "ⳟ", "ⳡ", "ⳣ", "ⳬ",
      "ⳮ", "ⳳ", "ꚁ", "ꚃ", "ꚅ", "ꚇ", "ꚉ", "ꚋ", "ꚍ", "ꚏ", "ꚑ", "ꚓ", "ꚕ", "ꚗ", "ꚙ", "ꚛ", "ꞁ", "ꞃ",
      "ꞅ", "ꞇ", "ꞌ", "U+0265", "ꞑ", "ꞓ", "ꞗ", "ꞙ", "ꞛ", "ꞝ", "ꞟ", "ꞡ", "ꞣ", "ꞥ", "ꞧ", "ꞩ",
      "U+0266", "U+025C", "U+0261", "U+026C", "U+026A", "ʞ", "ʇ", "ʝ", "U+AB53", "ꞵ", "ꞷ", "ꞹ",
      "ꞻ", "ꞽ", "ꞿ", "ꟁ", "ꟃ", "ꞔ", "ʂ", "ᶎ", "ꟈ", "ꟊ", "ꟑ", "ꟗ", "ꟙ", "ꟶ">>

\* the cased characters that are not case-ignorable, as far as they can be
\* written in a string here, and the characters that Lowers names by code point
Cased ==
    {"A", "B", "C", "D", "E", "F", "G", "H", "I", "J", "K", "L", "M", "N", "O", "P", "Q", "R",
     "S", "T", "U", "V", "W", "X", "Y", "Z", "a", "b", "c", "d", "e", "f", "g", "h", "i", "j",
     "k", "l", "m", "n", "o", "p", "q", "r", "s", "t", "u", "v", "w", "x", "y", "z", "ª", "µ",
     "º", "À", "Á", "Â", "Ã", "Ä", "Å", "Æ", "Ç", "È", "É", "Ê", "Ë", "Ì", "Í", "Î", "Ï", "Ð",
     "Ñ", "Ò", "Ó", "Ô", "Õ", "Ö", "Ø", "Ù", "Ú", "Û", "Ü", "Ý", "Þ", "ß", "à", "á", "â", "ã",
     "ä", "å", "æ", "ç", "è", "é", "ê", "ë", "ì", "í", "î", "ï", "ð", "ñ", "ò", "ó", "ô", "õ",
     "ö", "ø", "ù", "ú", "û", "ü", "ý", "þ", "ÿ", "ƀ", "Ɓ", "Ƃ", "ƃ", "Ƅ", "ƅ", "Ɔ", "Ƈ", "ƈ",
     "Ɖ", "Ɗ", "Ƌ", "ƌ", "ƍ", "Ǝ", "Ə", "Ɛ", "Ƒ", "ƒ", "Ɠ", "Ɣ", "ƕ", "Ɩ", "Ɨ", "Ƙ", "ƙ", "ƚ",
     "ƛ", "Ɯ", "Ɲ", "ƞ", "Ɵ", "Ơ", "ơ", "Ƣ", "ƣ", "Ƥ", "ƥ", "Ʀ", "Ƨ", "ƨ", "Ʃ", "ƪ", "ƫ", "Ƭ",
     "ƭ", "Ʈ", "Ư", "ư", "Ʊ", "Ʋ", "Ƴ", "ƴ", "Ƶ", "ƶ", "Ʒ", "Ƹ", "ƹ", "ƺ", "Ƽ", "ƽ", "ƾ", "ƿ",
     "Ǆ", "ǅ", "ǆ", "Ǉ", "ǈ", "ǉ", "Ǌ", "ǋ", "ǌ", "Ǎ", "ǎ", "Ǐ", "ǐ", "Ǒ", "ǒ", "Ǔ", "ǔ", "Ǖ",
     "ǖ", "Ǘ", "ǘ", "Ǚ", "ǚ", "Ǜ", "ǜ", "ǝ", "Ǟ", "ǟ", "Ǡ", "ǡ", "Ǣ", "ǣ", "Ǥ", "ǥ", "Ǧ", "ǧ",
     "Ǩ", "ǩ", "Ǫ", "ǫ", "Ǭ", "ǭ", "Ǯ", "ǯ", "ǰ", "Ǳ", "ǲ", "ǳ", "Ǵ", "ǵ", "Ƕ", "Ƿ", "Ǹ", "ǹ",
     "Ǻ", "ǻ", "Ǽ", "ǽ", "Ǿ", "ǿ", "U+0253", "U+0254", "U+0256", "U+0257", "U+0259", "U+025B",
     "U+025C", "U+0260", "U+0261", "U+0263", "U+0265", "U+0266", "U+0268", "U+0269", "U+026A",
     "U+026C", "U+026F", "U+0272", "U+0275", "ʀ", "ʁ", "ʂ", "ʃ", "ʄ", "ʅ", "ʆ", "ʇ", "ʈ", "ʉ",
     "ʊ", "ʋ", "ʌ", "ʍ", "ʎ", "ʏ", "ʐ", "ʑ", "ʒ", "ʓ", "ʕ", "ʖ", "ʗ", "ʘ", "ʙ", "ʚ", "ʛ", "ʜ",
     "ʝ", "ʞ", "ʟ", "ʠ", "ʡ", "ʢ", "ʣ", "ʤ", "ʥ", "ʦ", "ʧ", "ʨ", "ʩ", "ʪ", "ʫ", "ʬ", "ʭ", "ʮ",
     "ʯ", "U+037B", "U+037C", "U+037D", "Ά", "Έ", "Ή", "Ί", "Ό", "Ύ", "Ώ", "ΐ", "Α", "Β", "Γ",
     "Δ", "Ε", "Ζ", "Η", "Θ", "Ι", "Κ", "Λ", "Μ", "Ν", "Ξ", "Ο", "Π", "Ρ", "Σ", "Τ", "Υ", "Φ",
     "Χ", "Ψ", "Ω", "Ϊ", "Ϋ", "ά", "έ", "ή", "ί", "ΰ", "α", "β", "γ", "δ", "ε", "ζ", "η", "θ",
     "ι", "κ", "λ", "μ", "ν", "ξ", "ο", "π", "ρ", "ς", "σ", "τ", "υ", "φ", "χ", "ψ", "ω", "ϊ",
     "ϋ", "ό", "ύ", "ώ", "Ϗ", "ϐ", "ϑ", "ϒ", "ϓ", "ϔ", "ϕ", "ϖ", "ϗ", "Ϙ", "ϙ", "Ϛ", "ϛ", "Ϝ",
     "ϝ", "Ϟ", "ϟ", "Ϡ", "ϡ", "Ϣ", "ϣ", "Ϥ", "ϥ", "Ϧ", "ϧ", "Ϩ", "ϩ", "Ϫ", "ϫ", "Ϭ", "ϭ", "Ϯ",
     "ϯ", "ϰ", "ϱ", "ϲ", "ϳ", "ϴ", "ϵ", "Ϸ", "ϸ", "Ϲ", "Ϻ", "ϻ", "ϼ", "Ͻ", "Ͼ", "Ͽ", "Ҁ", "ҁ",
     "Ҋ", "ҋ", "Ҍ", "ҍ", "Ҏ", "ҏ", "Ґ", "ґ", "Ғ", "ғ", "Ҕ", "ҕ", "Җ", "җ", "Ҙ", "ҙ", "Қ", "қ",
     "Ҝ", "ҝ", "Ҟ", "ҟ", "Ҡ", "ҡ", "Ң", "ң", "Ҥ", "ҥ", "Ҧ", "ҧ", "Ҩ", "ҩ", "Ҫ", "ҫ", "Ҭ", "ҭ",
     "Ү", "ү", "Ұ", "ұ", "Ҳ", "ҳ", "Ҵ", "ҵ", "Ҷ", "ҷ", "Ҹ", "ҹ", "Һ", "һ", "Ҽ", "ҽ", "Ҿ", "ҿ",
     "Ӏ", "Ӂ", "ӂ", "Ӄ", "ӄ", "Ӆ", "ӆ", "Ӈ", "ӈ", "Ӊ", "ӊ", "Ӌ", "ӌ", "Ӎ", "ӎ", "ӏ", "Ӑ", "ӑ",
     "Ӓ", "ӓ", "Ӕ", "ӕ", "Ӗ", "ӗ", "Ә", "ә", "Ӛ", "ӛ", "Ӝ", "ӝ", "Ӟ", "ӟ", "Ӡ", "ӡ", "Ӣ", "ӣ",
     "Ӥ", "ӥ", "Ӧ", "ӧ", "Ө", "ө", "Ӫ", "ӫ", "Ӭ", "ӭ", "Ӯ", "ӯ", "Ӱ", "ӱ", "Ӳ", "ӳ", "Ӵ", "ӵ",
     "Ӷ", "ӷ", "Ӹ", "ӹ", "Ӻ", "ӻ", "Ӽ", "ӽ", "Ӿ", "ӿ", "ր", "ց", "ւ", "փ", "ք", "օ", "ֆ", "և",
     "ֈ", "Ⴀ", "Ⴁ", "Ⴂ", "Ⴃ", "Ⴄ", "Ⴅ", "Ⴆ", "Ⴇ", "Ⴈ", "Ⴉ", "Ⴊ", "Ⴋ", "Ⴌ", "Ⴍ", "Ⴎ", "Ⴏ", "Ⴐ",
     "Ⴑ", "Ⴒ", "Ⴓ", "Ⴔ", "Ⴕ", "Ⴖ", "Ⴗ", "Ⴘ", "Ⴙ", "Ⴚ", "Ⴛ", "Ⴜ", "Ⴝ", "Ⴞ", "Ⴟ", "Ⴠ", "Ⴡ", "Ⴢ",
     "Ⴣ", "Ⴤ", "Ⴥ", "Ⴧ", "Ⴭ", "ა", "ბ", "გ", "დ", "ე", "ვ", "ზ", "თ", "ი", "კ", "ლ", "მ", "ნ",
     "ო", "პ", "ჟ", "რ", "ს", "ტ", "უ", "ფ", "ქ", "ღ", "ყ", "შ", "ჩ", "ც", "ძ", "წ", "ჭ", "ხ",
     "ჯ", "ჰ", "ჱ", "ჲ", "ჳ", "ჴ", "ჵ", "ჶ", "ჷ", "ჸ", "ჹ", "ჺ", "ჽ", "ჾ", "ჿ", "Ꭰ", "Ꭱ", "Ꭲ",
     "Ꭳ", "Ꭴ", "Ꭵ", "Ꭶ", "Ꭷ", "Ꭸ", "Ꭹ", "Ꭺ", "Ꭻ", "Ꭼ", "Ꭽ", "Ꭾ", "Ꭿ", "Ꮀ", "Ꮁ", "Ꮂ", "Ꮃ", "Ꮄ",
     "Ꮅ", "Ꮆ", "Ꮇ", "Ꮈ", "Ꮉ", "Ꮊ", "Ꮋ", "Ꮌ", "Ꮍ", "Ꮎ", "Ꮏ", "Ꮐ", "Ꮑ", "Ꮒ", "Ꮓ", "Ꮔ", "Ꮕ", "Ꮖ",
     "Ꮗ", "Ꮘ", "Ꮙ", "Ꮚ", "Ꮛ", "Ꮜ", "Ꮝ", "Ꮞ", "Ꮟ", "Ꮠ", "Ꮡ", "Ꮢ", "Ꮣ", "Ꮤ", "Ꮥ", "Ꮦ", "Ꮧ", "Ꮨ",
     "Ꮩ", "Ꮪ", "Ꮫ", "Ꮬ", "Ꮭ", "Ꮮ", "Ꮯ", "Ꮰ", "Ꮱ", "Ꮲ", "Ꮳ", "Ꮴ", "Ꮵ", "Ꮶ", "Ꮷ", "Ꮸ", "Ꮹ", "Ꮺ",
     "Ꮻ", "Ꮼ", "Ꮽ", "Ꮾ", "Ꮿ", "Ᏸ", "Ᏹ", "Ᏺ", "Ᏻ", "Ᏼ", "Ᏽ", "ᏸ", "ᏹ", "ᏺ", "ᏻ", "ᏼ", "ᏽ", "ᲀ",
     "ᲁ", "ᲂ", "ᲃ", "ᲄ", "ᲅ", "ᲆ", "ᲇ", "ᲈ", "Ა", "Ბ", "Გ", "Დ", "Ე", "Ვ", "Ზ", "Თ", "Ი", "Კ",
     "Ლ", "Მ", "Ნ", "Ო", "Პ", "Ჟ", "Რ", "Ს", "Ტ", "Უ", "Ფ", "Ქ", "Ღ", "Ყ", "Შ", "Ჩ", "Ც", "Ძ",
     "Წ", "Ჭ", "Ხ", "Ჯ", "Ჰ", "Ჱ", "Ჲ", "Ჳ", "Ჴ", "Ჵ", "Ჶ", "Ჷ", "Ჸ", "Ჹ", "Ჺ", "Ჽ", "Ჾ", "Ჿ",
     "ᶀ", "ᶁ", "ᶂ", "ᶃ", "ᶄ", "ᶅ", "ᶆ", "ᶇ", "ᶈ", "ᶉ", "ᶊ", "ᶋ", "ᶌ", "ᶍ", "ᶎ", "ᶏ", "ᶐ", "ᶑ",
     "ᶒ", "ᶓ", "ᶔ", "ᶕ", "ᶖ", "ᶗ", "ᶘ", "ᶙ", "ᶚ", "Ẁ", "ẁ", "Ẃ", "ẃ", "Ẅ", "ẅ", "Ẇ", "ẇ", "Ẉ",
     "ẉ", "Ẋ", "ẋ", "Ẍ", "ẍ", "Ẏ", "ẏ", "Ẑ", "ẑ", "Ẓ", "ẓ", "Ẕ", "ẕ", "ẖ", "ẗ", "ẘ", "ẙ", "ẚ",
     "ẛ", "ẜ", "ẝ", "ẞ", "ẟ", "Ạ", "ạ", "Ả", "ả", "Ấ", "ấ", "Ầ", "ầ", "Ẩ", "ẩ", "Ẫ", "ẫ", "Ậ",
     "ậ", "Ắ", "ắ", "Ằ", "ằ", "Ẳ", "ẳ", "Ẵ", "ẵ", "Ặ", "ặ", "Ẹ", "ẹ", "Ẻ", "ẻ", "Ẽ", "ẽ", "Ế",
     "ế", "Ề", "ề", "Ể", "ể", "Ễ", "ễ", "Ệ", "ệ", "Ỉ", "ỉ", "Ị", "ị", "Ọ", "ọ", "Ỏ", "ỏ", "Ố",
     "ố", "Ồ", "ồ", "Ổ", "ổ", "Ỗ", "ỗ", "Ộ", "ộ", "Ớ", "ớ", "Ờ", "ờ", "Ở", "ở", "Ỡ", "ỡ", "Ợ",
     "ợ", "Ụ", "ụ", "Ủ", "ủ", "Ứ", "ứ", "Ừ", "ừ", "Ử", "ử", "Ữ", "ữ", "Ự", "ự", "Ỳ", "ỳ", "Ỵ",
     "ỵ", "Ỷ", "ỷ", "Ỹ", "ỹ", "Ỻ", "ỻ", "Ỽ", "ỽ", "Ỿ", "ỿ", "U+1F70", "U+1F71", "U+1F72",
     "U+1F73", "U+1F74", "U+1F75", "U+1F76", "U+1F77", "U+1F78", "U+1F79", "U+1F7A", "U+1F7B",
     "U+1F7C", "U+1F7D", "ᾀ", "ᾁ", "ᾂ", "ᾃ", "ᾄ", "ᾅ", "ᾆ", "ᾇ", "ᾈ", "ᾉ", "ᾊ", "ᾋ", "ᾌ", "ᾍ",
     "ᾎ", "ᾏ", "ᾐ", "ᾑ", "ᾒ", "ᾓ", "ᾔ", "ᾕ", "ᾖ", "ᾗ", "ᾘ", "ᾙ", "ᾚ", "ᾛ", "ᾜ", "ᾝ", "ᾞ", "ᾟ",
     "ᾠ", "ᾡ", "ᾢ", "ᾣ", "ᾤ", "ᾥ", "ᾦ", "ᾧ", "ᾨ", "ᾩ", "ᾪ", "ᾫ", "ᾬ", "ᾭ", "ᾮ", "ᾯ", "ᾰ", "ᾱ",
     "ᾲ", "ᾳ", "ᾴ", "ᾶ", "ᾷ", "Ᾰ", "Ᾱ", "Ὰ", "Ά", "ᾼ", "ι", "ῂ", "ῃ", "ῄ", "ῆ", "ῇ", "Ὲ", "Έ",
     "Ὴ", "Ή", "ῌ", "ῐ", "ῑ", "ῒ", "ΐ", "ῖ", "ῗ", "Ῐ", "Ῑ", "Ὶ", "Ί", "ῠ", "ῡ", "ῢ", "ΰ", "ῤ",
     "ῥ", "ῦ", "ῧ", "Ῠ", "Ῡ", "Ὺ", "Ύ", "Ῥ", "ῲ", "ῳ", "ῴ", "ῶ", "ῷ", "Ὸ", "Ό", "Ὼ", "Ώ", "ῼ",
     "Ↄ", "ↄ", "Ⓐ", "Ⓑ", "Ⓒ", "Ⓓ", "Ⓔ", "Ⓕ", "Ⓖ", "Ⓗ", "Ⓘ", "Ⓙ", "Ⓚ", "Ⓛ", "Ⓜ", "Ⓝ", "Ⓞ", "Ⓟ",
     "Ⓠ", "Ⓡ", "Ⓢ", "Ⓣ", "Ⓤ", "Ⓥ", "Ⓦ", "Ⓧ", "Ⓨ", "Ⓩ", "ⓐ", "ⓑ", "ⓒ", "ⓓ", "ⓔ", "ⓕ", "ⓖ", "ⓗ",
     "ⓘ", "ⓙ", "ⓚ", "ⓛ", "ⓜ", "ⓝ", "ⓞ", "ⓟ", "ⓠ", "ⓡ", "ⓢ", "ⓣ", "ⓤ", "ⓥ", "ⓦ", "ⓧ", "ⓨ", "ⓩ",
     "Ⲁ", "ⲁ", "Ⲃ", "ⲃ", "Ⲅ", "ⲅ", "Ⲇ", "ⲇ", "Ⲉ", "ⲉ", "Ⲋ", "ⲋ", "Ⲍ", "ⲍ", "Ⲏ", "ⲏ", "Ⲑ", "ⲑ",
     "Ⲓ", "ⲓ", "Ⲕ", "ⲕ", "Ⲗ", "ⲗ", "Ⲙ", "ⲙ", "Ⲛ", "ⲛ", "Ⲝ", "ⲝ", "Ⲟ", "ⲟ", "Ⲡ", "ⲡ", "Ⲣ", "ⲣ",
     "Ⲥ", "ⲥ", "Ⲧ", "ⲧ", "Ⲩ", "ⲩ", "Ⲫ", "ⲫ", "Ⲭ", "ⲭ", "Ⲯ", "ⲯ", "Ⲱ", "ⲱ", "Ⲳ", "ⲳ", "Ⲵ", "ⲵ",
     "Ⲷ", "ⲷ", "Ⲹ", "ⲹ", "Ⲻ", "ⲻ", "Ⲽ", "ⲽ", "Ⲿ", "ⲿ", "Ⳁ", "ⳁ", "Ⳃ", "ⳃ", "Ⳅ", "ⳅ", "Ⳇ", "ⳇ",
     "Ⳉ", "ⳉ", "Ⳋ", "ⳋ", "Ⳍ", "ⳍ", "Ⳏ", "ⳏ", "Ⳑ", "ⳑ", "Ⳓ", "ⳓ", "Ⳕ", "ⳕ", "Ⳗ", "ⳗ", "Ⳙ", "ⳙ",
     "Ⳛ", "ⳛ", "Ⳝ", "ⳝ", "Ⳟ", "ⳟ", "Ⳡ", "ⳡ", "Ⳣ", "ⳣ", "ⳤ", "Ⳬ", "ⳬ", "Ⳮ", "ⳮ", "Ⳳ", "ⳳ",
     "U+2D00", "U+2D01", "U+2D02", "U+2D03", "U+2D04", "U+2D05", "U+2D06", "U+2D07", "U+2D08",
     "U+2D09", "U+2D0A", "U+2D0B", "U+2D0C", "U+2D0D", "U+2D0E", "U+2D0F", "U+2D10", "U+2D11",
     "U+2D12", "U+2D13", "U+2D14", "U+2D15", "U+2D16", "U+2D17", "U+2D18", "U+2D19", "U+2D1A",
     "U+2D1B", "U+2D1C", "U+2D1D", "U+2D1E", "U+2D1F", "U+2D20", "U+2D21", "U+2D22", "U+2D23",
     "U+2D24", "U+2D25", "U+2D27", "U+2D2D", "Ꚁ", "ꚁ", "Ꚃ", "ꚃ", "Ꚅ", "ꚅ", "Ꚇ", "ꚇ", "Ꚉ", "ꚉ",
     "Ꚋ", "ꚋ", "Ꚍ", "ꚍ", "Ꚏ", "ꚏ", "Ꚑ", "ꚑ", "Ꚓ", "ꚓ", "Ꚕ", "ꚕ", "Ꚗ", "ꚗ", "Ꚙ", "ꚙ", "Ꚛ", "ꚛ",
     "Ꞁ", "ꞁ", "Ꞃ", "ꞃ", "Ꞅ", "ꞅ", "Ꞇ", "ꞇ", "Ꞌ", "ꞌ", "Ɥ", "ꞎ", "Ꞑ", "ꞑ", "Ꞓ", "ꞓ", "ꞔ", "ꞕ",
     "Ꞗ", "ꞗ", "Ꞙ", "ꞙ", "Ꞛ", "ꞛ", "Ꞝ", "ꞝ", "Ꞟ", "ꞟ", "Ꞡ", "ꞡ", "Ꞣ", "ꞣ", "Ꞥ", "ꞥ", "Ꞧ", "ꞧ",
     "Ꞩ", "ꞩ", "Ɦ", "Ɜ", "Ɡ", "Ɬ", "Ɪ", "ꞯ", "Ʞ", "Ʇ", "Ʝ", "Ꭓ", "Ꞵ", "ꞵ", "Ꞷ", "ꞷ", "Ꞹ", "ꞹ",
     "Ꞻ", "ꞻ", "Ꞽ", "ꞽ", "Ꞿ", "ꞿ", "Ꟁ", "ꟁ", "Ꟃ", "ꟃ", "Ꞔ", "Ʂ", "Ᶎ", "Ꟈ", "ꟈ", "Ꟊ", "ꟊ", "Ꟑ",
     "ꟑ", "ꟓ", "ꟕ", "Ꟗ", "ꟗ", "Ꟙ", "ꟙ", "Ꟶ", "ꟶ", "ꟺ", "U+AB53", "U+AB70", "U+AB71", "U+AB72",
     "U+AB73", "U+AB74", "U+AB75", "U+AB76", "U+AB77", "U+AB78", "U+AB79", "U+AB7A", "U+AB7B",
     "U+AB7C", "U+AB7D", "U+AB7E", "U+AB7F", "ꮀ", "ꮁ", "ꮂ", "ꮃ", "ꮄ", "ꮅ", "ꮆ", "ꮇ", "ꮈ", "ꮉ",
     "ꮊ", "ꮋ", "ꮌ", "ꮍ", "ꮎ", "ꮏ", "ꮐ", "ꮑ", "ꮒ", "ꮓ", "ꮔ", "ꮕ", "ꮖ", "ꮗ", "ꮘ", "ꮙ", "ꮚ", "ꮛ",
     "ꮜ", "ꮝ", "ꮞ", "ꮟ", "ꮠ", "ꮡ", "ꮢ", "ꮣ", "ꮤ", "ꮥ", "ꮦ", "ꮧ", "ꮨ", "ꮩ", "ꮪ", "ꮫ", "ꮬ", "ꮭ",
     "ꮮ", "ꮯ", "ꮰ", "ꮱ", "ꮲ", "ꮳ", "ꮴ", "ꮵ", "ꮶ", "ꮷ", "ꮸ", "ꮹ", "ꮺ", "ꮻ", "ꮼ", "ꮽ", "ꮾ", "ꮿ"}

\* the case-ignorable characters that can be written in a string here
CaseIgnorable ==
    {"'", ".", ":", "^", "¨", "­", "¯", "´", "·", "¸", "ʰ", "ʱ", "ʲ", "ʳ", "ʴ", "ʵ", "ʶ", "ʷ",
     "ʸ", "ʹ", "ʺ", "ʻ", "ʼ", "ʽ", "ʾ", "ʿ", "ˀ", "ˁ", "˂", "˃", "˄", "˅", "ˆ", "ˇ", "ˈ", "ˉ",
     "ˊ", "ˋ", "ˌ", "ˍ", "ˎ", "ˏ", "ː", "ˑ", "˒", "˓", "˔", "˕", "˖", "˗", "˘", "˙", "˚", "˛",
     "˜", "˝", "˞", "˟", "ˠ", "ˡ", "ˢ", "ˣ", "ˤ", "˥", "˦", "˧", "˨", "˩", "˪", "˫", "ˬ", "˭",
     "ˮ", "˯", "˰", "˱", "˲", "˳", "˴", "˵", "˶", "˷", "˸", "˹", "˺", "˻", "˼", "˽", "˾", "˿",
     "΄", "΅", "·", "҃", "҄", "҅", "҆", "҇", "҈", "҉", "֑", "֒", "֓", "֔", "֕", "֖", "֗", "֘",
     "֙", "֚", "֛", "֜", "֝", "֞", "֟", "֠", "֡", "֢", "֣", "֤", "֥", "֦", "֧", "֨", "֩", "֪",
     "֫", "֬", "֭", "֮", "֯", "ְ", "ֱ", "ֲ", "ֳ", "ִ", "ֵ", "ֶ", "ַ", "ָ", "ֹ", "ֺ", "ֻ", "ּ",
     "ֽ", "ֿ", "ׁ", "ׂ", "ׄ", "ׅ", "ׇ", "״", "ۖ", "ۗ", "ۘ", "ۙ", "ۚ", "ۛ", "ۜ", "۝", "۟", "۠",
     "ۡ", "ۢ", "ۣ", "ۤ", "ۥ", "ۦ", "ۧ", "ۨ", "۪", "۫", "۬", "ۭ", "ަ", "ާ", "ި", "ީ", "ު", "ޫ",
     "ެ", "ޭ", "ޮ", "ޯ", "ް", "߫", "߬", "߭", "߮", "߯", "߰", "߱", "߲", "߳", "ߴ", "ߵ", "ߺ", "߽",
     "࢈", "࢐", "࢑", "࢘", "࢙", "࢚", "࢛", "࢜", "࢝", "࢞", "࢟", "ࣉ", "࣊", "࣋", "࣌", "࣍", "࣎", "࣏",
     "࣐", "࣑", "࣒", "࣓", "ࣔ", "ࣕ", "ࣖ", "ࣗ", "ࣘ", "ࣙ", "ࣚ", "ࣛ", "ࣜ", "ࣝ", "ࣞ", "ࣟ", "࣠", "࣡",
     "࣢", "ࣣ", "ࣤ", "ࣥ", "ࣦ", "ࣧ", "ࣨ", "ࣩ", "࣪", "࣫", "࣬", "࣭", "࣮", "࣯", "ࣰ", "ࣱ", "ࣲ", "ࣳ",
     "ࣴ", "ࣵ", "ࣶ", "ࣷ", "ࣸ", "ࣹ", "ࣺ", "ࣻ", "ࣼ", "ࣽ", "ࣾ", "ࣿ", "ঁ", "়", "ু", "ূ", "ৃ", "ৄ",
     "্", "ৢ", "ৣ", "৾", "ઁ", "ં", "઼", "ુ", "ૂ", "ૃ", "ૄ", "ૅ", "ે", "ૈ", "્", "ૢ", "ૣ", "ૺ",
     "ૻ", "ૼ", "૽", "૾", "૿", "ஂ", "ீ", "்", "ಁ", "಼", "ಿ", "ೆ", "ೌ", "್", "ೢ", "ೣ", "ඁ", "්",
     "ි", "ී", "ු", "ූ", "ັ", "ິ", "ີ", "ຶ", "ື", "ຸ", "ູ", "຺", "ົ", "ຼ", "ໆ", "່", "້", "໊",
     "໋", "໌", "ໍ", "ྀ", "ཱྀ", "ྂ", "ྃ", "྄", "྆", "྇", "ྍ", "ྎ", "ྏ", "ྐ", "ྑ", "ྒ", "ྒྷ", "ྔ",
     "ྕ", "ྖ", "ྗ", "ྙ", "ྚ", "ྛ", "ྜ", "ྜྷ", "ྞ", "ྟ", "ྠ", "ྡ", "ྡྷ", "ྣ", "ྤ", "ྥ", "ྦ", "ྦྷ",
     "ྨ", "ྩ", "ྪ", "ྫ", "ྫྷ", "ྭ", "ྮ", "ྯ", "ྰ", "ྱ", "ྲ", "ླ", "ྴ", "ྵ", "ྶ", "ྷ", "ྸ", "ྐྵ",
     "ྺ", "ྻ", "ྼ", "࿆", "ႂ", "ႅ", "ႆ", "ႍ", "ႝ", "ჼ", "឴", "឵", "ិ", "ី", "ឹ", "ឺ", "ុ", "ូ",
     "ួ", "ំ", "៉", "៊", "់", "៌", "៍", "៎", "៏", "័", "៑", "្", "៓", "ៗ", "៝", "ᢅ", "ᢆ", "ᢩ",
     "ᪧ", "᪰", "᪱", "᪲", "᪳", "᪴", "᪵", "᪶", "᪷", "᪸", "᪹", "᪺", "᪻", "᪼", "᪽", "᪾", "ᪿ", "ᫀ",
     "᫁", "᫂", "᫃", "᫄", "᫅", "᫆", "᫇", "᫈", "᫉", "᫊", "᫋", "ᫌ", "ᫍ", "ᫎ", "ᮀ", "ᮁ", "ᮢ", "ᮣ",
     "ᮤ", "ᮥ", "ᮨ", "ᮩ", "᮫", "ᮬ", "ᮭ", "᯦", "ᯨ", "ᯩ", "ᯭ", "ᯯ", "ᯰ", "ᯱ", "᳐", "᳑", "᳒", "᳔",
     "᳕", "᳖", "᳗", "᳘", "᳙", "᳚", "᳛", "᳜", "᳝", "᳞", "᳟", "᳠", "᳢", "᳣", "᳤", "᳥", "᳦", "᳧",
     "᳨", "᳭", "᳴", "᳸", "᳹", "ᶛ", "ᶜ", "ᶝ", "ᶞ", "ᶟ", "ᶠ", "ᶡ", "ᶢ", "ᶣ", "ᶤ", "ᶥ", "ᶦ", "ᶧ",
     "ᶨ", "ᶩ", "ᶪ", "ᶫ", "ᶬ", "ᶭ", "ᶮ", "ᶯ", "ᶰ", "ᶱ", "ᶲ", "ᶳ", "ᶴ", "ᶵ", "ᶶ", "ᶷ", "ᶸ", "ᶹ",
     "ᶺ", "ᶻ", "ᶼ", "ᶽ", "ᶾ", "ᶿ", "᷀", "᷁", "᷂", "᷃", "᷄", "᷅", "᷆", "᷇", "᷈", "᷉", "᷊", "᷋",
     "᷌", "᷍", "᷎", "᷏", "᷐", "᷑", "᷒", "ᷓ", "ᷔ", "ᷕ", "ᷖ", "ᷗ", "ᷘ", "ᷙ", "ᷚ", "ᷛ", "ᷜ", "ᷝ",
     "ᷞ", "ᷟ", "ᷠ", "ᷡ", "ᷢ", "ᷣ", "ᷤ", "ᷥ", "ᷦ", "ᷧ", "ᷨ", "ᷩ", "ᷪ", "ᷫ", "ᷬ", "ᷭ", "ᷮ", "ᷯ",
     "ᷰ", "ᷱ", "ᷲ", "ᷳ", "ᷴ", "᷵", "᷶", "᷷", "᷸", "᷹", "᷺", "᷻", "᷼", "᷽", "᷾", "᷿", "᾽", "᾿",
     "῀", "῁", "῍", "῎", "῏", "῝", "῞", "῟", "῭", "΅", "`", "´", "῾", "ₐ", "ₑ", "ₒ", "ₓ", "ₔ",
     "ₕ", "ₖ", "ₗ", "ₘ", "ₙ", "ₚ", "ₛ", "ₜ", "⃐", "⃑", "⃒", "⃓", "⃔", "⃕", "⃖", "⃗", "⃘", "⃙",
     "⃚", "⃛", "⃜", "⃝", "⃞", "⃟", "⃠", "⃡", "⃢", "⃣", "⃤", "⃥", "⃦", "⃧", "⃨", "⃩", "⃪", "⃫",
     "⃬", "⃭", "⃮", "⃯", "⃰", "⳯", "⳰", "⳱", "ⷠ", "ⷡ", "ⷢ", "ⷣ", "ⷤ", "ⷥ", "ⷦ", "ⷧ", "ⷨ", "ⷩ",
     "ⷪ", "ⷫ", "ⷬ", "ⷭ", "ⷮ", "ⷯ", "ⷰ", "ⷱ", "ⷲ", "ⷳ", "ⷴ", "ⷵ", "ⷶ", "ⷷ", "ⷸ", "ⷹ", "ⷺ", "ⷻ",
     "ⷼ", "ⷽ", "ⷾ", "ⷿ", "゙", "゚", "゛", "゜", "ゝ", "ゞ", "ー", "ヽ", "ヾ", "ꓸ", "ꓹ", "ꓺ", "ꓻ", "ꓼ",
     "ꓽ", "ꚜ", "ꚝ", "ꚞ", "ꚟ", "꛰", "꛱", "ꞈ", "꞉", "꞊", "ꟲ", "ꟳ", "ꟴ", "ꟸ", "ꟹ", "꣄", "ꣅ", "꣠",
     "꣡", "꣢", "꣣", "꣤", "꣥", "꣦", "꣧", "꣨", "꣩", "꣪", "꣫", "꣬", "꣭", "꣮", "꣯", "꣰", "꣱", "ꣿ",
     "ꦀ", "ꦁ", "ꦂ", "꦳", "ꦶ", "ꦷ", "ꦸ", "ꦹ", "ꦼ", "ꦽ", "ꧏ", "ꧥ", "ꧦ", "ꪰ", "ꪲ", "ꪳ", "ꪴ", "ꪷ",
     "ꪸ", "ꪾ", "꪿", "꫁", "ꫝ", "ꫬ", "ꫭ", "ꫳ", "ꫴ", "꫶", "ꯥ", "ꯨ", "꯭", "﮲", "﮳", "﮴", "﮵", "﮶",
     "﮷", "﮸", "﮹", "﮺", "﮻", "﮼", "﮽", "﮾", "﮿", "﯀", "﯁", "﯂", "﻿", "ﾞ", "ﾟ", "￣", "￹", "￺",
     "￻"}

\* c.lower() for a str of the single character c
LowerChar(c) ==
    IF \E k \in 1..Len(Uppers) : Uppers[k] = c
    THEN Lowers[CHOOSE k \in 1..Len(Uppers) : Uppers[k] = c]
    ELSE c

\* the capital sigma at k is a final one: a cased character is before it, with
\* nothing but case-ignorable characters between, and none is after it likewise
FinalSigma(s, k) ==
    /\ \E j \in 1..(k - 1) :
           /\ s[j] \in Cased
           /\ \A i \in (j + 1)..(k - 1) : s[i] \in CaseIgnorable
    /\ ~\E j \in (k + 1)..Len(s) :
           /\ s[j] \in Cased
           /\ \A i \in (k + 1)..(j - 1) : s[i] \in CaseIgnorable

\* str.lower()
Lower(s) ==
    [k \in 1..Len(s) |->
        IF s[k] = "Σ" /\ FinalSigma(s, k) THEN "ς" ELSE LowerChar(s[k])]

\* the directives of strptime: %Y is \d\d\d\d, %m is 1[0-2]|0[1-9]|[1-9] and
\* %d is 3[0-1]|[1-2]\d|0[1-9]|[1-9]| [1-9]
IsYear(p) == Len(p) = 4 /\ \A k \in 1..Len(p) : IsDigit(p[k])

IsMonth(p) == Len(p) \in 1..2 /\ (\A k \in 1..Len(p) : p[k] \in AsciiDigits) /\ IntOf(p) \in 1..12

IsDay(p) ==
    \/ Len(p) \in 1..2 /\ (\A k \in 1..Len(p) : p[k] \in AsciiDigits) /\ IntOf(p) \in 1..31
    \/ Len(p) = 2 /\ p[1] \in {"1", "2"} /\ IsDigit(p[2])
    \/ Len(p) = 2 /\ p[1] = " " /\ p[2] \in (AsciiDigits \ {"0"})

DayValue(p) == IF p[1] = " " THEN DigitVal(p[2]) ELSE IntOf(p)

IsLeap(y) == (y % 4 = 0 /\ y % 100 # 0) \/ y % 400 = 0

DaysIn(y, m) ==
    IF m \in {4, 6, 9, 11} THEN 30
    ELSE IF m = 2 THEN (IF IsLeap(y) THEN 29 ELSE 28)
    ELSE 31

\* datetime(y, m, d) exists
IsDate(y, m, d) == y >= 1 /\ d <= DaysIn(y, m)

Pad2(n) == IF n < 10 THEN <<"0">> \o StrOf(n) ELSE StrOf(n)

\* dt.strftime('%Y-%m-%d'); the C library does not pad the year
FormatDate(y, m, d) == StrOf(y) \o <<"-">> \o Pad2(m) \o <<"-">> \o Pad2(d)

\* what the loop of parse_date gets when strptime raises ValueError
DateError == NoneStr

\* datetime.strptime(...).strftime('%Y-%m-%d') for the three fields of a date
\* string, in the order of the format: yi, mi and di are the places of %Y, %m
\* and %d
DateOfParts(parts, yi, mi, di) ==
    IF /\ Len(parts) = 3
       /\ IsYear(parts[yi]) /\ IsMonth(parts[mi]) /\ IsDay(parts[di])
       /\ IsDate(IntOf(parts[yi]), IntOf(parts[mi]), DayValue(parts[di]))
    THEN FormatDate(IntOf(parts[yi]), IntOf(parts[mi]), DayValue(parts[di]))
    ELSE DateError

\* the first of the formats that fits, in the order of the list `formats`
FirstDate(ymd, mdy, dmy, slash_ymd) ==
    IF ymd # DateError THEN ymd
    ELSE IF mdy # DateError THEN mdy
    ELSE IF dmy # DateError THEN dmy
    ELSE slash_ymd

\* parse_date(date_str): '%Y-%m-%d', '%m/%d/%Y', '%d/%m/%Y', '%Y/%m/%d';
\* DateError stands for the ValueError raised when no format fits
parse_date(date_str) ==
    FirstDate(DateOfParts(Split(date_str, <<"-">>), 1, 2, 3),
              DateOfParts(Split(date_str, <<"/">>), 3, 1, 2),
              DateOfParts(Split(date_str, <<"/">>), 3, 2, 1),
              DateOfParts(Split(date_str, <<"/">>), 1, 2, 3))


Unilateral == <<"u", "n", "i", "l", "a", "t", "e", "r", "a", "l">>

Bilateral == <<"b", "i", "l", "a", "t", "e", "r", "a", "l">>

\* validate_laterality(laterality)
validate_laterality(laterality) == Lower(laterality) \in {Unilateral, Bilateral}

\* `row[f].strip().replace(';', ',') if row[f].strip() else None`
ListField(text) ==
    IF Strip(text) # <<>> THEN ReplaceChar(Strip(text), ";", ",") ELSE NoneStr

\* the row is counted as an error before the database is asked: parse_date or
\* int() raises, the laterality is not valid, or sets <= 0
RowRejected(row) ==
    \/ parse_date(row.date_completed) = DateError
    \/ ~PyInt(row.sets).ok
    \/ ~validate_laterality(Lower(Strip(row.laterality)))
    \/ IsNegative(PyInt(row.sets).value)
    \/ IntEq(PyInt(row.sets).value, 0)

\* the right-side field: None for a unilateral row
RightField(laterality, text) == IF laterality = Unilateral THEN NoneStr ELSE ListField(text)

\* the values bound to the SELECT and to the INSERT for a row that is not
\* rejected
RowValues(row) ==
    [date_completed |-> parse_date(row.date_completed),
     body_part      |-> Strip(row.body_part),
     exercise_name  |-> Strip(row.exercise_name),
     laterality     |-> Lower(Strip(row.laterality)),
     sets           |-> PyInt(row.sets).value,
     weight_left    |-> ListField(row.weight_left),
     weight_right   |-> RightField(Lower(Strip(row.laterality)), row.weight_right),
     reps_left      |-> ListField(row.reps_left),
     reps_right     |-> RightField(Lower(Strip(row.laterality)), row.reps_right)]

\* `column = ?` in a WHERE clause: not true when either side is NULL
SqlEq(a, b) == a # NoneStr /\ b # NoneStr /\ a = b

\* SELECT COUNT(*) FROM exercises WHERE ... of the duplicate check
CountDuplicates(rows, v) ==
    Cardinality({k \in 1..Len(rows) :
        /\ SqlEq(rows[k].date_completed, v.date_completed)
        /\ SqlEq(rows[k].exercise_name, v.exercise_name)
        /\ SqlEq(rows[k].weight_left, v.weight_left)
        /\ SqlEq(rows[k].weight_right, v.weight_right)
        /\ SqlEq(rows[k].reps_left, v.reps_left)
        /\ SqlEq(rows[k].reps_right, v.reps_right)})

SampleRowUnilateral ==
    [date_completed |-> <<"2", "0", "2", "5", "-", "0", "1", "-", "1", "5">>,
     body_part |-> <<"C", "h", "e", "s", "t">>,
     exercise_name |-> <<"B", "e", "n", "c", "h">>,
     laterality |-> <<"u", "n", "i", "l", "a", "t", "e", "r", "a", "l">>,
     sets |-> <<"3">>,
     weight_left |-> <<"9", "0", ";", "9", "0", ";", "9", "0">>,
     weight_right |-> <<>>,
     reps_left |-> <<"1", "0", ";", "8", ";", "6">>,
     reps_right |-> <<>>]

SampleRowBilateral ==
    [date_completed |-> <<"0", "1", "/", "1", "6", "/", "2", "0", "2", "5">>,
     body_part |-> <<"B", "i", "c", "e", "p", "s">>,
     exercise_name |-> <<" ", "C", "u", "r", "l">>,
     laterality |-> <<"B", "i", "l", "a", "t", "e", "r", "a", "l">>,
     sets |-> <<"2">>,
     weight_left |-> <<"2", "0", ";", "2", "0">>,
     weight_right |-> <<"2", "0", ";", "2", "0">>,
     reps_left |-> <<"1", "0", ";", "8">>,
     reps_right |-> <<"1", "0", ";", "8">>]

SampleRowBodyweight ==
    [date_completed |-> <<"2", "0", "2", "5", "-", "0", "1", "-", "1", "7">>,
     body_part |-> <<"C", "o", "r", "e">>,
     exercise_name |-> <<"P", "l", "a", "n", "k">>,
     laterality |-> <<"b", "i", "l", "a", "t", "e", "r", "a", "l">>,
     sets |-> <<"1">>,
     weight_left |-> <<>>,
     weight_right |-> <<>>,
     reps_left |-> <<"6", "0">>,
     reps_right |-> <<"6", "0">>]

SampleRowBilateralAgain ==
    [date_completed |-> <<"2", "0", "2", "5", "-", "1", "-", "1", "6">>,
     body_part |-> <<"B", "i", "c", "e", "p", "s">>,
     exercise_name |-> <<"C", "u", "r", "l">>,
     laterality |-> <<"b", "i", "l", "a", "t", "e", "r", "a", "l">>,
     sets |-> <<" ", "2", " ">>,
     weight_left |-> <<"2", "0", ";", "2", "0">>,
     weight_right |-> <<"2", "0", ";", "2", "0">>,
     reps_left |-> <<" ", "1", "0", ";", "8">>,
     reps_right |-> <<"1", "0", ";", "8">>]

SampleRowBadDate ==
    [date_completed |-> <<"2", "0", "2", "5", "/", "0", "2", "/", "3", "0">>,
     body_part |-> <<"C", "o", "r", "e">>,
     exercise_name |-> <<"P", "l", "a", "n", "k">>,
     laterality |-> <<"b", "i", "l", "a", "t", "e", "r", "a", "l">>,
     sets |-> <<"1">>,
     weight_left |-> <<>>,
     weight_right |-> <<>>,
     reps_left |-> <<"6", "0">>,
     reps_right |-> <<"6", "0">>]

SampleRowNoSets ==
    [date_completed |-> <<"2", "0", "2", "5", "-", "0", "1", "-", "1", "8">>,
     body_part |-> <<"C", "o", "r", "e">>,
     exercise_name |-> <<"S", "i", "t", "u", "p">>,
     laterality |-> <<"u", "n", "i", "l", "a", "t", "e", "r", "a", "l">>,
     sets |-> <<"0">>,
     weight_left |-> <<>>,
     weight_right |-> <<>>,
     reps_left |-> <<>>,
     reps_right |-> <<>>]

SampleRowBadLaterality ==
    [date_completed |-> <<"1", "6", "/", "0", "1", "/", "2", "0", "2", "5">>,
     body_part |-> <<"B", "i", "c", "e", "p", "s">>,
     exercise_name |-> <<"C", "u", "r", "l">>,
     laterality |-> <<"b", "o", "t", "h">>,
     sets |-> <<"2">>,
     weight_left |-> <<"2", "0", ";", "2", "0">>,
     weight_right |-> <<"2", "0", ";", "2", "0">>,
     reps_left |-> <<"1", "0", ";", "8">>,
     reps_right |-> <<"1", "0", ";", "8">>]

SampleRowRightIgnored ==
    [date_completed |-> <<"2", "0", "2", "5", "-", "0", "1", "-", "1", "5">>,
     body_part |-> <<"C", "h", "e", "s", "t">>,
     exercise_name |-> <<"B", "e", "n", "c", "h">>,
     laterality |-> <<"u", "n", "i", "l", "a", "t", "e", "r", "a", "l">>,
     sets |-> <<"+", "3">>,
     weight_left |-> <<"9", "0", ";", "9", "0", ";", "9", "0">>,
     weight_right |-> <<"5">>,
     reps_left |-> <<"1", "0", ";", "8", ";", "6">>,
     reps_right |-> <<"5">>]

SampleRowBadSets ==
    [date_completed |-> <<"2", "0", "2", "5", "-", "0", "1", "-", "1", "5">>,
     body_part |-> <<"C", "h", "e", "s", "t">>,
     exercise_name |-> <<"B", "e", "n", "c", "h">>,
     laterality |-> <<"u", "n", "i", "l", "a", "t", "e", "r", "a", "l">>,
     sets |-> <<"x">>,
     weight_left |-> <<"9", "0", ";", "9", "0", ";", "9", "0">>,
     weight_right |-> <<>>,
     reps_left |-> <<"1", "0", ";", "8", ";", "6">>,
     reps_right |-> <<>>]

\* sets is 2^63, one more than an INTEGER column of sqlite holds
SampleRowHugeSets ==
    [date_completed |-> <<"2", "0", "2", "5", "-", "0", "1", "-", "1", "5">>,
     body_part |-> <<"C", "h", "e", "s", "t">>,
     exercise_name |-> <<"B", "e", "n", "c", "h">>,
     laterality |-> <<"u", "n", "i", "l", "a", "t", "e", "r", "a", "l">>,
     sets |-> <<"9", "2", "2", "3", "3", "7", "2", "0", "3", "6", "8", "5", "4", "7", "7", "5",
                "8", "0", "8">>,
     weight_left |-> <<"9", "0">>,
     weight_right |-> <<>>,
     reps_left |-> <<"1", "0">>,
     reps_right |-> <<>>]

SampleRows ==
    {SampleRowUnilateral,
     SampleRowBilateral,
     SampleRowBodyweight,
     SampleRowBilateralAgain,
     SampleRowBadDate,
     SampleRowNoSets,
     SampleRowBadLaterality,
     SampleRowRightIgnored,
     SampleRowBadSets,
     SampleRowHugeSets}

InitImport ==
    /\ csv_rows \in SeqsUpTo(SampleRows, MaxRows)
    /\ skip_duplicates \in BOOLEAN
    /\ table = <<>>
    /\ row_num = 1
    /\ imported_count = 0
    /\ skipped_count = 0
    /\ error_count = 0
    /\ returned = <<>>
    /\ pc = "import"
    /\ hand = <<>>
    /\ sheet = <<>>
    /\ exercises = <<>>
    /\ sides = <<>>
    /\ frame = NoLocals
    /\ stderr = <<>>
    /\ marks = <<>>
    /\ written = <<>>
    /\ nums = <<>>
    /\ joined = <<>>
    /\ parsed = <<>>
    /\ side_in = <<>>
    /\ side_out = <<>>
    /\ NamerIdle
    /\ DbToolIdle

\* error_count += 1; continue
CountError ==
    /\ error_count' = error_count + 1
    /\ UNCHANGED <<table, imported_count, skipped_count>>

\* skipped_count += 1; continue
CountSkipped ==
    /\ skipped_count' = skipped_count + 1
    /\ UNCHANGED <<table, imported_count, error_count>>

\* the largest value of an INTEGER column of sqlite, 2^63 - 1
MaxSqlInteger ==
    <<"9", "2", "2", "3", "3", "7", "2", "0", "3", "6", "8", "5", "4", "7", "7", "5", "8",
      "0", "7">>

\* the INSERT raises OverflowError: sets, which is positive here, is too large
\* for sqlite
InsertRaises(v) == IsBigInt(v.sets) /\ ~DigitsLeq(v.sets, MaxSqlInteger)

\* INSERT INTO exercises ...; imported_count += 1
InsertRow(v) ==
    /\ table' = Append(table, [id |-> Len(table) + 1] @@ v)
    /\ imported_count' = imported_count + 1
    /\ UNCHANGED <<skipped_count, error_count>>

\* the body of the loop over the rows of the file
RowBody(row) ==
    IF RowRejected(row) THEN CountError
    ELSE IF skip_duplicates /\ CountDuplicates(table, RowValues(row)) > 0 THEN CountSkipped
    ELSE IF InsertRaises(RowValues(row)) THEN CountError
    ELSE InsertRow(RowValues(row))

\* one iteration of `for row_num, row in enumerate(reader, 2)`
ImportRow ==
    /\ pc = "import"
    /\ row_num <= Len(csv_rows)
    /\ RowBody(csv_rows[row_num])
    /\ row_num' = row_num + 1
    /\ UNCHANGED <<hand, sheet, pc, exercises, sides, frame, stderr, marks, written, nums, joined,
                   parsed, side_in, side_out, namer, csv_rows, skip_duplicates, returned,
                   dbtool>>

\* conn.commit(); conn.close(); return imported_count, skipped_count, error_count
ImportReturn ==
    /\ pc = "import"
    /\ row_num > Len(csv_rows)
    /\ returned' = Append(returned, [imported |-> imported_count,
                                     skipped  |-> skipped_count,
                                     errors   |-> error_count,
                                     table    |-> table])
    /\ pc' = "returned"
    /\ UNCHANGED <<hand, sheet, exercises, sides, frame, stderr, marks, written, nums, joined,
                   parsed, side_in, side_out, namer, csv_rows, skip_duplicates, table,
                   row_num, imported_count, skipped_count, error_count,
                   dbtool>>

\* the same file is imported again into the same database
ImportAgain ==
    /\ pc = "returned"
    /\ Len(returned) < MaxImports
    /\ row_num' = 1
    /\ imported_count' = 0
    /\ skipped_count' = 0
    /\ error_count' = 0
    /\ pc' = "import"
    /\ UNCHANGED <<hand, sheet, exercises, sides, frame, stderr, marks, written, nums, joined,
                   parsed, side_in, side_out, namer, csv_rows, skip_duplicates, table,
                   returned,
                   dbtool>>

NextImport == ImportRow \/ ImportReturn \/ ImportAgain

SpecImport == InitImport /\ [][NextImport]_vars

-----------------------------------------------------------------------------
(* exercise_database.py: the shorthand of the sets of one side *)

MaxSets == 3            \* sets of one side

\* the weights and the reps a set may have
SetWeights == {-5, 0, 90, 100}
SetReps == {6, 8, 10}

\* the program is at rest in extract_exercises.py: no sheet, no record
ExtractorIdle ==
    /\ hand = <<>>
    /\ sheet = <<>>
    /\ exercises = <<>>
    /\ sides = <<>>
    /\ frame = NoLocals
    /\ stderr = <<>>
    /\ marks = <<>>
    /\ written = <<>>
    /\ nums = <<>>
    /\ joined = <<>>
    /\ parsed = <<>>
    /\ side_in = <<>>
    /\ side_out = <<>>

\* `prev_weight is None or w != prev_weight`; prev_weight is <<>> for None and
\* <<the weight of the set before>> else
WeightWritten(w, prev_weight) == prev_weight = <<>> \/ ~IntEq(w, prev_weight[1])

\* parts after `for w, r in zip(weights, reps)`: the weight is written when it
\* is the first or differs from prev_weight
RECURSIVE SetParts(_, _, _)
SetParts(weights, reps, prev_weight) ==
    IF weights = <<>> \/ reps = <<>> THEN <<>>
    ELSE <<IF WeightWritten(Head(weights), prev_weight)
           THEN StrOf(Head(weights)) \o <<"#", " ", "×", " ">> \o StrOf(Head(reps))
           ELSE StrOf(Head(reps))>>
         \o SetParts(Tail(weights), Tail(reps), <<Head(weights)>>)

\* formatting set k raises ValueError: its reps, or its weight when written,
\* have more than MaxStrDigits digits
SetRaises(weights, reps, k) ==
    \/ StrRaises(reps[k])
    \/ /\ StrRaises(weights[k])
       /\ WeightWritten(weights[k], IF k = 1 THEN <<>> ELSE <<weights[k - 1]>>)

\* join_sets(weights, reps)
join_sets(weights, reps) ==
    IF \E k \in 1..Min(Len(weights), Len(reps)) : SetRaises(weights, reps, k) THEN StrError
    ELSE Join(<<",", " ">>, SetParts(weights, reps, <<>>))

\* the lists parse_int_list gives export_exercises for one side
InitExport ==
    /\ pc = "export"
    /\ set_weights \in SeqsUpTo(SetWeights, MaxSets)
    /\ set_reps \in SeqsUpTo(SetReps, MaxSets)
    /\ printed = <<>>
    /\ reparsed = <<>>
    /\ call = <<>>
    /\ ExtractorIdle
    /\ NamerIdle
    /\ ImporterIdle

\* sets_str = join_sets(w_l, r_l)
JoinSets ==
    /\ pc = "export"
    /\ printed = <<>>
    /\ printed' = <<join_sets(set_weights, set_reps)>>
    /\ UNCHANGED <<hand, sheet, pc, exercises, sides, frame, stderr, marks, written, nums, joined,
                   parsed, side_in, side_out, namer, importer, set_weights, set_reps,
                   reparsed, call>>

\* parse_side reads the printed shorthand as the data of one side
ParseSets ==
    /\ pc = "export"
    /\ printed # <<>>
    /\ printed[1] # StrError
    /\ reparsed = <<>>
    /\ reparsed' = <<parse_side(printed[1], printed[1])>>
    /\ UNCHANGED <<hand, sheet, pc, exercises, sides, frame, stderr, marks, written, nums, joined,
                   parsed, side_in, side_out, namer, importer, set_weights, set_reps,
                   printed, call>>

NextExport == JoinSets \/ ParseSets

SpecExport == InitExport /\ [][NextExport]_vars

-----------------------------------------------------------------------------
(* exercise_database.py: add_exercise *)

MaxAdds == 2            \* rows that add_exercise stores

BODY_PARTS ==
    <<<<"C", "h", "e", "s", "t">>,
      <<"U", "p", "p", "e", "r", " ", "B", "a", "c", "k">>,
      <<"L", "o", "w", "e", "r", " ", "B", "a", "c", "k">>,
      <<"S", "h", "o", "u", "l", "d", "e", "r", "s">>,
      <<"C", "a", "l", "v", "e", "s">>,
      <<"G", "l", "u", "t", "e", "s">>,
      <<"C", "o", "r", "e">>,
      <<"B", "i", "c", "e", "p", "s">>,
      <<"T", "r", "i", "c", "e", "p", "s">>,
      <<"R", "o", "t", "a", "t", "o", "r", " ", "C", "u", "f", "f">>,
      <<"N", "e", "c", "k">>,
      <<"F", "o", "r", "e", "a", "r", "m">>,
      <<"H", "a", "m", "s", "t", "r", "i", "n", "g", "s">>,
      <<"Q", "u", "a", "d", "s">>,
      <<"T", "r", "a", "p", "s">>,
      <<"T", "i", "b", "i", "a", " ", "D", "o", "r", "s", "i">>,
      <<"K", "n", "e", "e">>,
      <<"H", "i", "p">>,
      <<"L", "e", "g", "s">>>>

LATERALITY == <<Unilateral, Bilateral>>

\* `x in list`
InList(x, list) == \E k \in 1..Len(list) : list[k] = x

\* None where Optional[List[int]] is expected; a list l that is given is <<l>>
NoList == <<>>

\* both lists have to be of another length than sets
LengthsDifferBoth(weights, reps, sets) ==
    ~IntEq(Len(weights), sets) /\ ~IntEq(Len(reps), sets)

\* len(weights) != sets or len(reps) != sets
LengthsDiffer(weights, reps, sets) == ~IntEq(Len(weights), sets) \/ ~IntEq(Len(reps), sets)

\* the unilateral branch raises ValueError
UnilateralError(a) ==
    \/ Len(a.weights) = 0
    \/ Len(a.reps) = 0
    \/ LengthsDiffer(a.weights[1], a.reps[1], a.sets)

\* the lists that the loop of the bilateral branch goes through
BilateralLists(a) == <<a.weights_left, a.weights_right, a.reps_left, a.reps_right>>

\* the loop over the four lists of the bilateral branch raises ValueError
BilateralError(a) ==
    \E k \in 1..Len(BilateralLists(a)) :
        \/ Len(BilateralLists(a)[k]) = 0
        \/ ~IntEq(Len(BilateralLists(a)[k][1]), a.sets)

\* ','.join(map(str, values))
JoinInts(values) ==
    IF \E k \in 1..Len(values) : StrRaises(values[k]) THEN StrError
    ELSE Join(<<",">>, StrsOf(values))

\* a join of the branch raises ValueError: str() of a value does
JoinRaises(a) ==
    IF a.laterality = Unilateral
    THEN StrError \in {JoinInts(a.weights[1]), JoinInts(a.reps[1])}
    ELSE StrError \in {JoinInts(a.weights_left[1]), JoinInts(a.weights_right[1]),
                       JoinInts(a.reps_left[1]), JoinInts(a.reps_right[1])}

\* add_exercise raises ValueError before it opens the database
Raises(a) ==
    IF ~InList(a.body_part, BODY_PARTS) THEN TRUE
    ELSE IF ~InList(a.laterality, LATERALITY) THEN TRUE
    ELSE IF IsNegative(a.sets) \/ IntEq(a.sets, 0) THEN TRUE
    ELSE IF a.laterality = Unilateral /\ UnilateralError(a) THEN TRUE
    ELSE IF a.laterality # Unilateral /\ BilateralError(a) THEN TRUE
    ELSE JoinRaises(a)

\* the values bound to the INSERT of the unilateral branch
UnilateralRow(a) ==
    [date_completed |-> a.date_completed,
     body_part      |-> a.body_part,
     exercise_name  |-> a.exercise_name,
     laterality     |-> a.laterality,
     sets           |-> a.sets,
     weight_left    |-> JoinInts(a.weights[1]),
     weight_right   |-> NoneStr,
     reps_left      |-> JoinInts(a.reps[1]),
     reps_right     |-> NoneStr]

\* the values bound to the INSERT of the bilateral branch
BilateralRow(a) ==
    [date_completed |-> a.date_completed,
     body_part      |-> a.body_part,
     exercise_name  |-> a.exercise_name,
     laterality     |-> a.laterality,
     sets           |-> a.sets,
     weight_left    |-> JoinInts(a.weights_left[1]),
     weight_right   |-> JoinInts(a.weights_right[1]),
     reps_left      |-> JoinInts(a.reps_left[1]),
     reps_right     |-> JoinInts(a.reps_right[1])]

\* the values bound to the INSERT of a call that does not raise
AddedRow(a) == IF a.laterality = Unilateral THEN UnilateralRow(a) ELSE BilateralRow(a)

\* the arguments of the calls
AddDate == <<"2", "0", "2", "4", "-", "0", "1", "-", "0", "5">>
AddName == <<"R", "o", "w">>
AddBodyParts == {<<"H", "i", "p">>, <<"h", "i", "p">>, <<"A", "r", "m", "s">>}
AddLateralities == {Unilateral, Bilateral, <<"b", "o", "t", "h">>}
AddSets == {-1, 0, 1, 2}
WeightArgs == {NoList, <<<<>>>>, <<<<-5>>>>, <<<<90, 100>>>>}
RepsArgs == {NoList, <<<<>>>>, <<<<8>>>>, <<<<10, 8>>>>}

\* what the four left and right lists are when they do not vary: all None,
\* all empty, or all of one value
SameLists == {"none", "empty", "one"}
SameList(o, v) == IF o = "none" THEN NoList ELSE IF o = "empty" THEN <<<<>>>> ELSE <<<<v>>>>

\* calls that vary weights and reps
UnilateralArgs ==
    {[date_completed |-> AddDate, body_part |-> b, exercise_name |-> AddName,
      laterality |-> l, sets |-> n, weights |-> w, reps |-> r,
      weights_left  |-> SameList(o, 90),
      weights_right |-> SameList(o, 90),
      reps_left     |-> SameList(o, 8),
      reps_right    |-> SameList(o, 8)] :
        b \in AddBodyParts, l \in AddLateralities, n \in AddSets,
        w \in WeightArgs, r \in RepsArgs, o \in SameLists}

\* calls that vary the four left and right lists, each None or not empty;
\* weights and reps are None
BilateralArgs ==
    {[date_completed |-> AddDate, body_part |-> b, exercise_name |-> AddName,
      laterality |-> l, sets |-> n, weights |-> NoList, reps |-> NoList,
      weights_left |-> wl, weights_right |-> wr, reps_left |-> rl, reps_right |-> rr] :
        b \in AddBodyParts, l \in AddLateralities, n \in AddSets,
        wl \in WeightArgs \ {<<<<>>>>}, wr \in WeightArgs \ {<<<<>>>>},
        rl \in RepsArgs \ {<<<<>>>>}, rr \in RepsArgs \ {<<<<>>>>}}

AddArgs == UnilateralArgs \cup BilateralArgs

\* 10^4300, the smallest int that str() does not print
HugeInt == <<"1">> \o [k \in 1..MaxStrDigits |-> "0"]

\* a unilateral call of one set whose weight is HugeInt
HugeCall ==
    [date_completed |-> AddDate, body_part |-> <<"H", "i", "p">>, exercise_name |-> AddName,
     laterality |-> Unilateral, sets |-> 1, weights |-> <<<<HugeInt>>>>, reps |-> <<<<8>>>>,
     weights_left |-> NoList, weights_right |-> NoList, reps_left |-> NoList,
     reps_right |-> NoList]

\* the table after initialize_db, no call yet
InitAdd ==
    /\ pc = "add"
    /\ call = <<>>
    /\ set_weights = <<>>
    /\ set_reps = <<>>
    /\ printed = <<>>
    /\ reparsed = <<>>
    /\ ExtractorIdle
    /\ NamerIdle
    /\ ImporterIdle

\* add_exercise(**add_kwargs): ValueError, or INSERT INTO exercises and commit
AddExercise(a) ==
    /\ pc = "add"
    /\ call = <<>>
    /\ Len(table) < MaxAdds
    /\ table' = IF Raises(a) THEN table
                ELSE Append(table, [id |-> Len(table) + 1] @@ AddedRow(a))
    /\ call' = <<[args |-> a, before |-> table, raised |-> Raises(a)]>>
    /\ UNCHANGED <<hand, sheet, pc, exercises, sides, frame, stderr, marks, written, nums, joined,
                   parsed, side_in, side_out, namer, csv_rows, row_num, imported_count,
                   skipped_count, error_count, skip_duplicates, returned, set_weights,
                   set_reps, printed, reparsed>>

\* main ends, with 'Exercise added.' or with the ValueError
AddReturn ==
    /\ pc = "add"
    /\ call # <<>>
    /\ call' = <<>>
    /\ UNCHANGED <<hand, sheet, pc, exercises, sides, frame, stderr, marks, written, nums, joined,
                   parsed, side_in, side_out, namer, importer, set_weights, set_reps,
                   printed, reparsed>>

NextAdd == (\E a \in AddArgs : AddExercise(a)) \/ AddExercise(HugeCall) \/ AddReturn

SpecAdd == InitAdd /\ [][NextAdd]_vars

-----------------------------------------------------------------------------
(* Vocabulary of the properties *)

\* the boxes that have a record
Processed == 1..Len(exercises)

\* the text of box k as the loop sees it
TextOf(k) == BoxText(sheet[k].ocr)

\* the warnings printed while box k was processed
WarningsOf(k) == SubSeq(stderr, (IF k = 1 THEN 0 ELSE marks[k - 1]) + 1, marks[k])

\* how many warnings of ws have this reason
CountReason(ws, reason) == Cardinality({j \in 1..Len(ws) : ws[j].reason = reason})

\* how many comma separated entries a serialized sequence has
Entries(str) ==
    IF str = NoneStr \/ str = <<>> THEN 0
    ELSE 1 + Cardinality({j \in 1..Len(str) : str[j] = ","})

\* the integer a digit token of the forms stands for
TokenValue(tok) ==
    CASE tok = <<"0">> -> 0
      [] tok = <<"8">> -> 8
      [] tok = <<"1", "0">> -> 10
      [] tok = <<"0", "0", "7">> -> 7
      [] tok = <<"1", "2", "5">> -> 125
      [] tok = <<"0", "0">> -> 0
      [] tok = <<"4", "0">> -> 40
      [] tok = <<"9", "9", "9">> -> 999
      [] tok = <<"9", "0">> -> 90
      [] tok = <<"1", "0", "0">> -> 100
      [] tok = <<"6">> -> 6
      [] tok = <<"1", "2">> -> 12

TokenValues(toks) == [j \in 1..Len(toks) |-> TokenValue(toks[j])]

\* the indices at which a run of four or more digits starts
LongRunStarts(s) ==
    {k \in 1..Len(s) : IsDigit(s[k]) /\ ~IsDigit(At(s, k - 1)) /\ DigitsFrom(s, k) >= 4}

\* s without its runs of four or more digits
RECURSIVE DropLongRuns(_, _)
DropLongRuns(s, k) ==
    IF k > Len(s) THEN <<>>
    ELSE IF \E a \in LongRunStarts(s) : a <= k /\ k < a + DigitsFrom(s, a)
         THEN DropLongRuns(s, k + 1)
         ELSE <<s[k]>> \o DropLongRuns(s, k + 1)

-----------------------------------------------------------------------------
(* Properties *)

\* C1: for every box text the loop body finishes without raising an exception
\* and the run produces one record for every box.
C1_NeverRaises ==
    /\ pc # "crashed"
    /\ pc = "done" => Len(written) = Len(sheet)

\* C2: in a side text with a run of four or more digits, no digit of the run
\* contributes to weights or reps, one digits_too_long warning is printed for
\* each such run, and the rest is parsed as if the run were not there.
C2_LongRunIgnored ==
    \A k \in Processed :
        (exercises[k].laterality = "unilateral" /\ LongRunStarts(TextOf(k)) # {}) =>
            /\ CountReason(WarningsOf(k), "digits_too_long")
                  = Cardinality(LongRunStarts(TextOf(k)))
            /\ sides[k][1].reps
                  = parse_side(DropLongRuns(TextOf(k), 1), TextOf(k)).reps
            /\ sides[k][1].weights
                  = parse_side(DropLongRuns(TextOf(k), 1), TextOf(k)).weights

\* C3: every result of parse_side has as many weights as reps.
C3_EqualLengths ==
    \A k \in Processed : \A j \in 1..Len(sides[k]) :
        Len(sides[k][j].weights) = Len(sides[k][j].reps)

C3_Witness ==
    \E k \in Processed :
        /\ TextOf(k) = SamplePairAndCount
        /\ sides[k][1].weights = <<90, 90>>
        /\ sides[k][1].reps = <<10, 8>>

\* C4: sets is the number of left reps of a unilateral record and the larger of
\* the two numbers of reps of a bilateral record; each side of a bilateral
\* record keeps its parsed length, and has as many weights as reps.
C4_Sets ==
    \A k \in Processed :
        LET ex == exercises[k]
            nl == Entries(ex.reps_left)
            nr == Entries(ex.reps_right)
        IN  /\ Entries(ex.weight_left) = nl
            /\ Entries(ex.weight_right) = nr
            /\ nl = Len(sides[k][1].reps)
            /\ ex.laterality = "unilateral" => ex.sets = nl
            /\ ex.laterality = "bilateral" =>
                  /\ ex.sets = (IF nl >= nr THEN nl ELSE nr)
                  /\ nr = Len(sides[k][2].reps)

C4_Witness ==
    \E k \in Processed :
        /\ TextOf(k) = SampleMismatch
        /\ exercises[k].sets = 2
        /\ exercises[k].reps_left = <<"1", "0", ",", "8">>
        /\ exercises[k].reps_right = <<"1", "0">>
        /\ exercises[k].weight_right = <<"0">>

\* C5: a side_count_mismatch warning is printed for a box exactly when the box
\* is bilateral and its two sides have different numbers of reps, once, and the
\* record of the box is produced all the same.
C5_MismatchWarning ==
    \A k \in Processed :
        CountReason(WarningsOf(k), "side_count_mismatch")
            = (IF /\ exercises[k].laterality = "bilateral"
                  /\ Entries(exercises[k].reps_left) # Entries(exercises[k].reps_right)
               THEN 1 ELSE 0)

C5_Witness ==
    /\ Len(exercises) = 2
    /\ TextOf(1) = SampleBilateral
    /\ exercises[1].reps_left = exercises[1].reps_right
    /\ CountReason(WarningsOf(1), "side_count_mismatch") = 0
    /\ TextOf(2) = SampleMismatch
    /\ CountReason(WarningsOf(2), "side_count_mismatch") = 1

\* C6: a unilateral box "w# x r0, r1, ..., rk" gives reps r0..rk and k+1 times
\* the weight w; without the pair it gives reps r1..rk and k times the weight
\* 0; sets is the number of reps.
C6_Shorthand ==
    \A k \in Processed :
        hand[k].kind = "shorthand" =>
            LET counts == TokenValues(hand[k].counts)
                reps   == IF hand[k].pair = <<>> THEN counts
                          ELSE <<TokenValue(hand[k].pair[2])>> \o counts
                w      == IF hand[k].pair = <<>> THEN 0 ELSE TokenValue(hand[k].pair[1])
            IN  /\ exercises[k].laterality = "unilateral"
                /\ sides[k][1].reps = reps
                /\ sides[k][1].weights = [j \in 1..Len(reps) |-> w]
                /\ exercises[k].sets = Len(reps)

C6_Witness ==
    \E k \in Processed :
        /\ hand[k].kind = "shorthand"
        /\ hand[k].pair = <<<<"0", "0", "7">>, <<"1", "0">>>>
        /\ hand[k].counts = <<<<"8">>, <<"1", "2", "5">>>>
        /\ sides[k][1].weights = <<7, 7, 7>>
        /\ sides[k][1].reps = <<10, 8, 125>>
        /\ exercises[k].sets = 3

\* C7: a note box "#<digit> <word> <separator> <counts>" gives weights 0, the
\* counts as reps, and extra_text equal to the word alone, without marker,
\* separator or comma.
C7_NoteWordOnly ==
    \A k \in Processed :
        hand[k].kind = "note" =>
            /\ sides[k][1].reps = TokenValues(hand[k].counts)
            /\ \A j \in 1..Len(sides[k][1].weights) : sides[k][1].weights[j] = 0
            /\ exercises[k].extra_text = hand[k].word

\* C8: in the written form of every record, none of reps_left, reps_right,
\* weight_left and weight_right is the empty string.
C8_NoEmptyString ==
    pc = "done" =>
        \A k \in 1..Len(written) :
            /\ written[k].reps_left # <<>>
            /\ written[k].reps_right # <<>>
            /\ written[k].weight_left # <<>>
            /\ written[k].weight_right # <<>>

\* C9: parse_int_list(join_numbers(nums)) = nums for every list of integers in
\* 0..999, and a pair text "w# x r" of 1-3 digit tokens parses to the integer
\* values of w and r.
C9_RoundTrip ==
    /\ parsed # <<>> => parsed[1] = [raised |-> FALSE, list |-> nums]
    /\ side_out # <<>> =>
          /\ side_out[1].weights = <<TokenValue(hand[1].w)>>
          /\ side_out[1].reps = <<TokenValue(hand[1].r)>>

C9_Witness ==
    /\ nums = <<0, 999>>
    /\ joined = <<<<"0", ",", "9", "9", "9">>>>
    /\ parsed = <<[raised |-> FALSE, list |-> nums]>>
    /\ hand[1].w = <<"0", "0", "7">>
    /\ hand[1].r = <<"4", "0">>
    /\ side_out # <<>>
    /\ side_out[1].weights = <<7>>
    /\ side_out[1].reps = <<40>>

\* C10: the record and the warnings of a box depend only on its name and its
\* text, not on the boxes processed before it: two boxes with the same name
\* and text get the same record, the same parse results and the same
\* warnings, whatever the local variables held when their iteration began.
C10_Independent ==
    \A j \in Processed : \A k \in Processed :
        sheet[j] = sheet[k] =>
            /\ exercises[j] = exercises[k]
            /\ sides[j] = sides[k]
            /\ WarningsOf(j) = WarningsOf(k)

\* the same unilateral box first and, after a bilateral box with other counts
\* has bound the local variables, third
C10_Witness ==
    /\ Len(exercises) = 3
    /\ sheet[1] = sheet[3]
    /\ TextOf(1) = SampleCounts
    /\ TextOf(2) = SampleMismatch
    /\ exercises[3].laterality = "unilateral"
    /\ exercises[3].reps_left = <<"1", "9", ",", "1", "2">>
    /\ frame.left_info # <<>>
    /\ frame.left_info[1].reps = <<10, 8>>
    /\ frame.side_info = <<sides[3][1]>>

\* C11: a number written directly before "#" is a weight and never a repetition
\* count, also without a separator and a count after the "#": a box "w#" or
\* "w# r1, ..., rk" has exactly the reps r1..rk.
C11_MarkedNumberNoRep ==
    \A k \in Processed :
        hand[k].kind = "weight" => sides[k][1].reps = TokenValues(hand[k].counts)

\* C12: a box whose record has an extra_text never passes without a warning:
\* at least one warning is printed while the box is processed.
C12_ResidueWarned ==
    \A k \in Processed :
        (exercises[k].extra_text # NoneStr /\ exercises[k].extra_text # <<>>) =>
            WarningsOf(k) # <<>>

\* the six columns of the duplicate check are equal, NULL being equal to NULL
SameEntry(a, b) ==
    /\ a.date_completed = b.date_completed
    /\ a.exercise_name = b.exercise_name
    /\ a.weight_left = b.weight_left
    /\ a.weight_right = b.weight_right
    /\ a.reps_left = b.reps_left
    /\ a.reps_right = b.reps_right

\* C13: with skip_duplicates on, a row equal in the six columns to a row of
\* the table is not inserted, so the table never holds two such rows; and the
\* second import of a file without rejected rows returns imported = 0 and
\* leaves the table as the first import left it.
C13_ImportTwice ==
    skip_duplicates =>
        /\ \A j \in 1..Len(table) : \A k \in 1..Len(table) :
              SameEntry(table[j], table[k]) => j = k
        /\ (Len(returned) >= 2 /\ returned[1].errors = 0) =>
              /\ returned[2].imported = 0
              /\ returned[2].table = returned[1].table

\* the box the loop is at or was at: it has a record, or the run ended at it
Reached(k) == k \in Processed \/ (pc = "crashed" /\ k = Len(exercises) + 1)

\* the indices at which the left marker occurs, and those at which the right
\* marker occurs after the first left marker
LeftMarks(text) == {i \in 1..Len(text) : OccursAt(text, LMark, i)}

RightMarksAfter(text) ==
    {j \in 1..Len(text) :
        OccursAt(text, RMark, j) /\ \E i \in LeftMarks(text) : i < j}

FirstOf(S) == CHOOSE x \in S : \A y \in S : x <= y

\* the text between the first left marker and the first right marker after it
LeftSegment(text) ==
    SubSeq(text, FirstOf(LeftMarks(text)) + Len(LMark), FirstOf(RightMarksAfter(text)) - 1)

\* the text after that right marker
RightSegment(text) ==
    SubSeq(text, FirstOf(RightMarksAfter(text)) + Len(RMark), Len(text))

\* C14: every box the loop reaches is classified: bilateral exactly when a right
\* marker occurs after a left marker, with the two segments parsed on their
\* own, and unilateral otherwise (also with the right marker only before the
\* left one, or with one marker), the whole text parsed once and no right side.
C14_Classification ==
    \A k \in 1..Len(sheet) :
        Reached(k) =>
            /\ k \in Processed
            /\ IF RightMarksAfter(TextOf(k)) # {}
               THEN /\ exercises[k].laterality = "bilateral"
                    /\ sides[k] = <<parse_side(LeftSegment(TextOf(k)), TextOf(k)),
                                    parse_side(RightSegment(TextOf(k)), TextOf(k))>>
               ELSE /\ exercises[k].laterality = "unilateral"
                    /\ sides[k] = <<parse_side(TextOf(k), TextOf(k))>>
                    /\ exercises[k].reps_right = NoneStr
                    /\ exercises[k].weight_right = NoneStr

\* the entries <<weight, rep>> a box of mixed entries stands for, in the order
\* of the text: a pair gives its own weight, a bare count the weight of the
\* nearest pair before it, or `last` when there is none
RECURSIVE EntriesInOrder(_, _)
EntriesInOrder(items, last) ==
    IF items = <<>> THEN <<>>
    ELSE IF Head(items).w = <<>>
         THEN <<<<last, TokenValue(Head(items).r)>>>> \o EntriesInOrder(Tail(items), last)
         ELSE <<<<TokenValue(Head(items).w), TokenValue(Head(items).r)>>>>
              \o EntriesInOrder(Tail(items), TokenValue(Head(items).w))

\* the entries <<weight, rep>> of a parse_side result, as a set
EntrySet(info) == {<<info.weights[j], info.reps[j]>> : j \in 1..Len(info.reps)}

\* C15: in a side of pairs and bare counts, every bare count is recorded with
\* the weight of the nearest pair before it in the text, and with 0 when no
\* pair is before it, whatever pairs come later.
C15_NearestPrecedingPair ==
    \A k \in Processed :
        hand[k].kind = "mixed" =>
            /\ Len(sides[k][1].reps) = Len(hand[k].items)
            /\ EntrySet(sides[k][1])
                  = {EntriesInOrder(hand[k].items, 0)[j] : j \in 1..Len(hand[k].items)}

\* the text given to parse_side for side j of box k
SideData(k, j) ==
    IF exercises[k].laterality = "unilateral" THEN TextOf(k)
    ELSE IF j = 1 THEN LeftSegment(TextOf(k)) ELSE RightSegment(TextOf(k))

\* the text of a side after the pairs were removed
AfterPairs(data) ==
    CutSpans(ReplaceChar(data, "×", "x"), FindPairs(ReplaceChar(data, "×", "x"), 1), 1)

\* a number (a maximal run of digits) starts at index i
NumberStartsAt(work, i) == IsDigit(At(work, i)) /\ ~IsDigit(At(work, i - 1))

\* the values of the numbers from index i on that have no "#" right before
\* them, in the order of the text
RECURSIVE UnmarkedNumbers(_, _)
UnmarkedNumbers(work, i) ==
    IF i > Len(work) THEN <<>>
    ELSE IF NumberStartsAt(work, i) /\ At(work, i - 1) # "#"
         THEN <<IntOf(SubSeq(work, i, i + DigitsFrom(work, i) - 1))>>
              \o UnmarkedNumbers(work, i + 1)
         ELSE UnmarkedNumbers(work, i + 1)

\* every number of work has one to three digits: no four characters in a row
\* are all digits
ShortNumbers(work) ==
    \A i \in 1..(Len(work) - NumDigits) : \E j \in i..(i + NumDigits) : ~IsDigit(work[j])

\* the entries of info after the first npairs are the unmarked numbers of work
UnmarkedAccepted(info, work, npairs) ==
    ShortNumbers(work) =>
        /\ SubSeq(info.reps, npairs + 1, Len(info.reps)) = UnmarkedNumbers(work, 1)
        /\ Len(info.weights) = Len(info.reps)

\* the same, for the pairs found in the text of the side
UnmarkedWithPairs(info, replaced, pairs) ==
    UnmarkedAccepted(info, CutSpans(replaced, pairs, 1), Len(pairs))

\* the same, for the text of the side with "x" for every "×"
UnmarkedAfterPairs(info, replaced) == UnmarkedWithPairs(info, replaced, FindPairs(replaced, 1))

\* C16: when every number of the text left after pair removal has one to three
\* digits, the numbers with "#" right before them add no entry, and all the
\* others (at the start of the text, or after any other character, a space
\* included) are accepted as repetition counts, in the order of the text.
C16_MarkedNumberSkipped ==
    \A k \in Processed : \A j \in 1..Len(sides[k]) :
        UnmarkedAfterPairs(sides[k][j], ReplaceChar(SideData(k, j), "×", "x"))

C16_Witness ==
    \E k \in Processed :
        /\ TextOf(k) = SampleSpacedMark
        /\ sides[k][1].reps = <<12>>
        /\ sides[k][1].weights = <<0>>

\* the characters trimmed from a residue
Trimmed == Whitespace \cup {","}

\* C17: a residue that is present is not empty and neither begins nor ends
\* with a comma or whitespace; and a side in which only numbers, commas and
\* whitespace are left after pair removal (as in a side of pairs and bare
\* counts separated by commas and spaces) has no residue.
C17_ResidueTrimmed ==
    \A k \in Processed : \A j \in 1..Len(sides[k]) :
        /\ sides[k][j].extra_text # NoneStr =>
              /\ sides[k][j].extra_text # <<>>
              /\ Head(sides[k][j].extra_text) \notin Trimmed
              /\ sides[k][j].extra_text[Len(sides[k][j].extra_text)] \notin Trimmed
        /\ (\A i \in 1..Len(AfterPairs(SideData(k, j))) :
                AfterPairs(SideData(k, j))[i] \in Digits \cup Trimmed) =>
              sides[k][j].extra_text = NoneStr

\* a residue is there
Present(text) == text # NoneStr /\ text # <<>>

\* C18: the extra_text of a record is made of the residues of its sides: for a
\* unilateral record the residue of the one side; for a bilateral record the
\* left residue, a space and the right residue when both are there, the one
\* that is there when only one is, and absent when neither is.
C18_ExtraTextJoined ==
    \A k \in Processed :
        IF exercises[k].laterality = "unilateral"
        THEN exercises[k].extra_text = sides[k][1].extra_text
        ELSE exercises[k].extra_text
                = (IF Present(sides[k][1].extra_text) /\ Present(sides[k][2].extra_text)
                   THEN sides[k][1].extra_text \o <<" ">> \o sides[k][2].extra_text
                   ELSE IF Present(sides[k][1].extra_text) THEN sides[k][1].extra_text
                   ELSE IF Present(sides[k][2].extra_text) THEN sides[k][2].extra_text
                   ELSE NoneStr)

C18_Witness ==
    \E k \in Processed :
        /\ TextOf(k) = <<"L", " ", "-", "a", "R", " ", "-", "#">>
        /\ exercises[k].laterality = "bilateral"
        /\ sides[k][1].extra_text = <<"a">>
        /\ sides[k][2].extra_text = <<"#">>
        /\ exercises[k].extra_text = <<"a", " ", "#">>

\* the text has no digit
NoDigit(text) == \A i \in 1..Len(text) : ~IsDigit(text[i])

\* C19: every box without a digit that the loop reaches gets a record with
\* sets = 0, no weights and no reps on any side, and an extra_text that is the
\* whole text of the box (absent for an empty box).
C19_NoDigitKeepsText ==
    \A k \in 1..Len(sheet) :
        (Reached(k) /\ NoDigit(TextOf(k))) =>
            /\ k \in Processed
            /\ exercises[k].sets = 0
            /\ \A j \in 1..Len(sides[k]) :
                  sides[k][j].reps = <<>> /\ sides[k][j].weights = <<>>
            /\ exercises[k].extra_text = OrNone(TextOf(k))

\* a section marker starts at index p: "L" or "R", then whitespace or nothing,
\* then "-"
MarkerStarts(line, p) ==
    /\ line[p] \in {"L", "R"}
    /\ \E q \in (p + 1)..Len(line) :
          line[q] = "-" /\ \A j \in (p + 1)..(q - 1) : IsSpace(line[j])

\* the positions that start a section marker or a digit
NameEnds(line) == {p \in 1..Len(line) : MarkerStarts(line, p) \/ IsDigit(line[p])}

\* the indices of the occurrences of " - " that lie entirely before p
DelimsBefore(line, p) == {i \in 1..Len(line) : OccursAt(line, Delim, i) /\ i + 2 < p}

LastOf(S) == CHOOSE x \in S : \A y \in S : x >= y

\* the name the rule gives for a line
NameByRule(line) ==
    IF NameEnds(line) = {} THEN Strip(line)
    ELSE IF DelimsBefore(line, FirstOf(NameEnds(line))) # {}
         THEN Strip(SubSeq(line, 1, LastOf(DelimsBefore(line, FirstOf(NameEnds(line)))) - 1))
         ELSE Strip(SubSeq(line, 1, FirstOf(NameEnds(line)) - 1))

\* C20: the name of every printed line after the title is the trimmed text
\* before the last " - " that lies entirely before the leftmost marker or digit,
\* or before that position when there is no such " - ", or the whole trimmed
\* line when there is neither marker nor digit; it is a prefix of the line and
\* has no digit.
C20_ExtractName ==
    exercise_names # <<>> =>
        /\ Len(exercise_names[1]) = Len(lines) - 1
        /\ \A k \in 1..Len(exercise_names[1]) :
              /\ exercise_names[1][k] = NameByRule(lines[k + 1])
              /\ exercise_names[1][k]
                    = SubSeq(lines[k + 1], 1, Len(exercise_names[1][k]))
              /\ NoDigit(exercise_names[1][k])

C20_Witness ==
    /\ lines = <<Title, <<"R", "o", "w", " ", "-", " ", " ", "-", " ", "5">>, SampleLineMarker>>
    /\ exercise_names = <<<<<<"R", "o", "w", " ", "-">>, <<"R", "o", "w">>>>>>

\* the reps and the weights a box of mixed entries stands for, in the order of
\* the text
RepsInOrder(items) == [j \in 1..Len(items) |-> TokenValue(items[j].r)]

\* C21: in a side of pairs and bare counts, reps lists the sets in the order in
\* which they are written, a bare count written before a pair included, and
\* weights has one entry for each of them.
C21_TextOrder ==
    \A k \in Processed :
        hand[k].kind = "mixed" =>
            /\ sides[k][1].reps = RepsInOrder(hand[k].items)
            /\ Len(sides[k][1].weights) = Len(hand[k].items)

\* the tokens of these matches have one to three digits
ShortTokens(pairs, numbers) ==
    /\ \A j \in 1..Len(pairs) :
          Len(pairs[j].w) \in 1..3 /\ Len(pairs[j].r) \in 1..3
    /\ \A j \in 1..Len(numbers) : Len(numbers[j].r) \in 1..3

\* every token given to the validator was accepted: one entry for every pair
\* and for every number without "#" right before it, all of them in 0..999
AllAccepted(info, pairs, numbers, work) ==
    /\ Len(info.reps)
          = Len(pairs) + Cardinality({j \in 1..Len(numbers) :
                                        At(work, numbers[j].start - 1) # "#"})
    /\ \A j \in 1..Len(info.reps) : info.reps[j] \in 0..999
    /\ \A j \in 1..Len(info.weights) : info.weights[j] \in 0..999

\* the side gave info; pairs and numbers are the matches of PAIR_RE in its
\* text and of NUM_RE in work, the text without the pairs
SideTokensShort(info, pairs, numbers, work) ==
    /\ ShortTokens(pairs, numbers)
    /\ AllAccepted(info, pairs, numbers, work)

SideAfterPairs(info, pairs, work) == SideTokensShort(info, pairs, FindNums(work, 1), work)

SideWithPairs(info, replaced, pairs) ==
    SideAfterPairs(info, pairs, CutSpans(replaced, pairs, 1))

\* the same for the text of a side, "×" replaced
SideShort(info, replaced) == SideWithPairs(info, replaced, FindPairs(replaced, 1))

\* C22: every token that parse_side gives to _parse_number has one to three
\* digits, so no token is rejected, no digits_too_long warning is printed, and
\* every value of weights and reps is in 0..999.
C22_TokensShort ==
    /\ \A j \in 1..Len(stderr) : stderr[j].reason # "digits_too_long"
    /\ \A k \in Processed : \A j \in 1..Len(sides[k]) :
          SideShort(sides[k][j], ReplaceChar(SideData(k, j), "×", "x"))

C22_Witness ==
    \E k \in Processed :
        /\ TextOf(k) = SampleFourDigits
        /\ sides[k][1].reps = <<123, 4>>
        /\ sides[k][1].weights = <<0, 0>>
        /\ WarningsOf(k) = <<>>

\* every value of the list is in 0..999
InRange(values) == \A k \in 1..Len(values) : values[k] \in 0..999

\* C23: parse_side gives back the weights and the reps of equally long lists
\* of values in 0..999 from the shorthand join_sets prints for them.
C23_SetsRoundTrip ==
    (/\ reparsed # <<>>
     /\ Len(set_weights) = Len(set_reps)
     /\ InRange(set_weights)
     /\ InRange(set_reps)) =>
        /\ reparsed[1].weights = set_weights
        /\ reparsed[1].reps = set_reps

\* the lists add_exercise requires for the laterality of the call
RequiredLists(a) ==
    IF a.laterality = Unilateral THEN <<a.weights, a.reps>>
    ELSE <<a.weights_left, a.weights_right, a.reps_left, a.reps_right>>

\* known body part and laterality, sets >= 1, every required list given with
\* exactly `sets` values
Acceptable(a) ==
    /\ a.body_part \in {BODY_PARTS[k] : k \in 1..Len(BODY_PARTS)}
    /\ a.laterality \in {Unilateral, Bilateral}
    /\ a.sets >= 1
    /\ \A j \in 1..Len(RequiredLists(a)) :
           /\ RequiredLists(a)[j] # NoList
           /\ Len(RequiredLists(a)[j][1]) = a.sets

\* the number of comma-separated values of a stored list
ValuesIn(text) ==
    IF text = <<>> THEN 0 ELSE 1 + Cardinality({k \in 1..Len(text) : text[k] = ","})

\* a stored row: sets >= 1, every non-null list of `sets` values, right side
\* NULL exactly for unilateral
RowSound(row) ==
    /\ row.sets >= 1
    /\ \A text \in {row.weight_left, row.weight_right, row.reps_left, row.reps_right} :
           text # NoneStr => ValuesIn(text) = row.sets
    /\ (row.weight_right = NoneStr) <=> (row.laterality = Unilateral)
    /\ (row.reps_right = NoneStr) <=> (row.laterality = Unilateral)

\* str() prints every value of the required lists
Printable(a) ==
    \A j \in 1..Len(RequiredLists(a)) :
        \A k \in 1..Len(RequiredLists(a)[j][1]) : ~StrRaises(RequiredLists(a)[j][1][k])

\* C24: add_exercise inserts one row when the arguments are acceptable and
\* str() prints their values, and otherwise, so whenever they are not
\* acceptable, raises ValueError and leaves the table as it was; every stored
\* row has sets >= 1, `sets` values in each non-null list, and NULL right-side
\* fields exactly when it is unilateral.
C24_AddExercise ==
    /\ call # <<>> =>
           IF Acceptable(call[1].args) /\ Printable(call[1].args)
           THEN /\ ~call[1].raised
                /\ Len(table) = Len(call[1].before) + 1
                /\ SubSeq(table, 1, Len(call[1].before)) = call[1].before
           ELSE /\ call[1].raised
                /\ table = call[1].before
    /\ \A i \in 1..Len(table) : RowSound(table[i])

\* a bilateral call with one list too long is refused after a unilateral row
\* of one set with a negative weight was stored
C24_Witness ==
    /\ call # <<>>
    /\ call[1].raised
    /\ call[1].args.laterality = Bilateral
    /\ call[1].args.sets = 1
    /\ call[1].args.weights_left = <<<<-5>>>>
    /\ call[1].args.weights_right = <<<<-5>>>>
    /\ call[1].args.reps_left = <<<<8>>>>
    /\ call[1].args.reps_right = <<<<10, 8>>>>
    /\ Len(table) = 1
    /\ table[1].laterality = Unilateral
    /\ table[1].sets = 1
    /\ table[1].weight_left = <<"-", "5">>
    /\ table[1].reps_left = <<"8">>
    /\ table[1].weight_right = NoneStr

====
